---- MODULE Spec2Model ----
(***************************************************************************)
(* Response aggregation and report synthesis of step-school-eval.          *)
(*                                                                         *)
(* JavaScript numbers that are compared with the grade thresholds are      *)
(* modelled as integers scaled by 10000 (4.2 is 42000); a quotient a/b is  *)
(* floor(10000*a/b), which orders against the thresholds exactly as a/b.   *)
(* Strings that the code inspects character by character (parseInt, the    *)
(* brace regular expression, JSON.parse) are sequences of one-character    *)
(* strings.                                                                *)
(***************************************************************************)
EXTENDS Integers, Sequences, FiniteSets, TLC

VARIABLES
    gScores,    \* the averages handed to convertToGrade (scaled by 10000)
    gGrades,    \* the GradeInfo level returned for each, "pending" before the call
    questions,  \* the project's question documents, in order_index order
    responses,  \* the project's response documents, in fetched order
    stats,      \* ProjectStats' published state (useState<Stats>)
    loading,    \* ProjectStats' loading flag
    loadError,  \* loadStats' catch block has logged "Stats load error"
    responseText, \* result.response.text() of the generative service
    payload,    \* the payload the text was rendered from, if it was
    preamble,   \* the prose before the rendered payload
    trailing,   \* the prose after the rendered payload
    parsed,     \* the outcome of the parsing step
    reqKind,    \* which callable the component invokes
    reqProjectId, \* the projectId prop sent as data.projectId
    fnPc,       \* where the invoked function stands
    fnFetched,  \* the function has read the project's data
    fnModelCalls, \* generateContent calls made for the current request
    fnPrompt,   \* the text responses embedded in the prompt of the call
    fnOutcome,  \* what the call delivers to the caller
    uiPc,       \* where the calling component stands
    uiResult,   \* the component's report / analysis state, NoResult for null
    uiError,    \* the component's error state
    uiLoading,  \* the component's loading state
    page,       \* the survey page that is mounted: "Survey" or "TeacherSurvey"
    accessCode, \* the accessCode route parameter
    surveyLink, \* the page's surveyLink state, NoLink for null
    surveyQuestions, \* the page's questions state
    answers,    \* the page's responses state: question id -> value
    sessionPc,  \* where the page stands
    addDocs,    \* the addDoc calls createResponses has made, with their outcome
    submitAttempt, \* how many times handleSubmit has called createResponses
    selectedItems, \* PriorityVoting's selectedItems state
    lastCall,   \* the latest call of addItem, removeItem or moveItem
    loadQueries, \* the queries of loadStats that are pending, and the answers
    deletions   \* how many questions the administrator has deleted

gradeVars == <<gScores, gGrades>>

statsVars == <<questions, responses, stats, loading, loadError>>

parserVars == <<responseText, payload, preamble, trailing, parsed>>

requestVars == <<reqKind, reqProjectId, fnPc, fnFetched, fnModelCalls, fnPrompt,
                 fnOutcome, uiPc, uiResult, uiError, uiLoading>>

surveyVars == <<page, accessCode, surveyLink, surveyQuestions, answers, sessionPc,
                addDocs, submitAttempt, selectedItems, lastCall,
                loadQueries, deletions>>

vars == <<gScores, gGrades, questions, responses, stats, loading, loadError,
          responseText, payload, preamble, trailing, parsed,
          reqKind, reqProjectId, fnPc, fnFetched, fnModelCalls, fnPrompt,
          fnOutcome, uiPc, uiResult, uiError, uiLoading,
          page, accessCode, surveyLink, surveyQuestions, answers, sessionPc,
          addDocs, submitAttempt, selectedItems, lastCall,
          loadQueries, deletions>>

----------------------------------------------------------------------------
(* Grade converter: src/src/integrations/firebase/types.ts                 *)

GradeDelta == 1

GradeLevels == {"excellent", "good", "average", "poor"}

gradeThresholds == [excellent |-> 42000, good |-> 34000, average |-> 26000]

gradeInfoMap ==
    [excellent |-> [level |-> "excellent", color |-> "text-emerald-600"],
     good      |-> [level |-> "good",      color |-> "text-blue-600"],
     average   |-> [level |-> "average",   color |-> "text-amber-600"],
     poor      |-> [level |-> "poor",      color |-> "text-red-600"]]

\* faulty variant: the comparison with the top threshold is strict
convertToGrade_strict(averageScore) ==
    IF averageScore > gradeThresholds.excellent THEN gradeInfoMap.excellent
    ELSE IF averageScore >= gradeThresholds.good THEN gradeInfoMap.good
    ELSE IF averageScore >= gradeThresholds.average THEN gradeInfoMap.average
    ELSE gradeInfoMap.poor

\* faulty variant: the two middle branches return each other's grade
convertToGrade_swapped(averageScore) ==
    IF averageScore >= gradeThresholds.excellent THEN gradeInfoMap.excellent
    ELSE IF averageScore >= gradeThresholds.good THEN gradeInfoMap.average
    ELSE IF averageScore >= gradeThresholds.average THEN gradeInfoMap.good
    ELSE gradeInfoMap.poor

convertToGrade(averageScore) ==
    IF averageScore >= gradeThresholds.excellent THEN gradeInfoMap.excellent
    ELSE IF averageScore >= gradeThresholds.good THEN gradeInfoMap.good
    ELSE IF averageScore >= gradeThresholds.average THEN gradeInfoMap.average
    ELSE gradeInfoMap.poor

\* the averages tried: around every threshold, and far from them
GradeInputs ==
    {t + d : t \in {gradeThresholds.excellent, gradeThresholds.good,
                    gradeThresholds.average},
             d \in (0 - GradeDelta)..GradeDelta}
    \cup {0 - 10000, 0, 10000, 30000, 50000, 60000}

NoGrades == [i \in 1..2 |-> "pending"]

NoScores == [i \in 1..2 |-> 0]

\* one call convertToGrade(gScores[i])
ConvertScore(i) ==
    /\ gGrades[i] = "pending"
    /\ gGrades' = [gGrades EXCEPT ![i] = convertToGrade(gScores[i]).level]
    /\ UNCHANGED gScores
    /\ UNCHANGED statsVars
    /\ UNCHANGED surveyVars
    /\ UNCHANGED parserVars
    /\ UNCHANGED requestVars

GradeNext == \E i \in 1..2 : ConvertScore(i)

----------------------------------------------------------------------------
(* Statistics aggregator: ProjectStats.loadStats, src/unnamed/part_002     *)

MaxQuestions == 3
MaxResponses == 2

\* the respondent types the stored documents are drawn from
StoreTypes == {"teacher", "parent"}

\* response_value strings: the rating "5", the out-of-range "6", an empty
\* value, the free texts "good" and "3 ok", and a priority list "[{}]"
StoreValues ==
    { <<"5">>, <<"6">>, <<>>,
      <<"g", "o", "o", "d">>, <<"3", " ", "o", "k">>,
      <<"[", "{", "}", "]">> }

\* question_id of a stored response: question 1, or 0 for a deleted question
StoreQuestionIds == {0, 1}

Digits == {"0", "1", "2", "3", "4", "5", "6", "7", "8", "9"}

DigitValue(c) ==
    CASE c = "0" -> 0 [] c = "1" -> 1 [] c = "2" -> 2 [] c = "3" -> 3
      [] c = "4" -> 4 [] c = "5" -> 5 [] c = "6" -> 6 [] c = "7" -> 7
      [] c = "8" -> 8 [] c = "9" -> 9

NaN == [nan |-> TRUE, n |-> 0]

Num(k) == [nan |-> FALSE, n |-> k]

WhiteSpace == {" ", "\n"}

RECURSIVE SkipWhiteSpace(_, _)
SkipWhiteSpace(s, i) ==
    IF i <= Len(s) /\ s[i] \in WhiteSpace THEN SkipWhiteSpace(s, i + 1) ELSE i

RECURSIVE ReadDigits(_, _, _)
ReadDigits(s, i, acc) ==
    IF i <= Len(s) /\ s[i] \in Digits
    THEN ReadDigits(s, i + 1, acc * 10 + DigitValue(s[i]))
    ELSE acc

\* parseInt(string) of ECMAScript with the radix left out: leading white
\* space is skipped, a sign is read, then the longest run of decimal digits;
\* what follows the digits is ignored. (No stored value starts with 0x.)
parseInt(s) ==
    LET i == SkipWhiteSpace(s, 1)
        signed == i <= Len(s) /\ s[i] \in {"+", "-"}
        j == IF signed THEN i + 1 ELSE i
    IN  IF j <= Len(s) /\ s[j] \in Digits
        THEN Num((IF signed /\ s[i] = "-" THEN 0 - 1 ELSE 1) * ReadDigits(s, j, 0))
        ELSE NaN

\* a JavaScript quotient a / b of two counts, scaled by 10000
Quotient(a, b) == (a * 10000) \div b

\* Math.round((a / b) * 100)
RoundPercent(a, b) == (200 * a + b) \div (2 * b)

\* obj[key] || 0 on a Record<string, number>
GetOr0(obj, key) == IF key \in DOMAIN obj THEN obj[key] ELSE 0

\* obj[key] = (obj[key] || 0) + 1
Increment(obj, key) ==
    IF key \in DOMAIN obj
    THEN [obj EXCEPT ![key] = @ + 1]
    ELSE [k \in DOMAIN obj \cup {key} |-> IF k = key THEN 1 ELSE obj[k]]

EmptyRecord == [k \in {} |-> 0]

\* docs.forEach(d => { count[d.respondent_type] = (count[...] || 0) + 1 })
RECURSIVE CountByType(_, _, _)
CountByType(docs, i, acc) ==
    IF i > Len(docs) THEN acc
    ELSE CountByType(docs, i + 1, Increment(acc, docs[i].respondent_type))

\* Object.keys of the record CountByType builds: first-insertion order
RECURSIVE KeysInOrder(_, _, _)
KeysInOrder(docs, i, acc) ==
    IF i > Len(docs) THEN acc
    ELSE KeysInOrder(docs, i + 1,
            IF \E k \in 1..Len(acc) : acc[k] = docs[i].respondent_type
            THEN acc ELSE Append(acc, docs[i].respondent_type))

\* faulty variant: the range test of a rating is left out
IsRating_anyInteger(r) ==
    /\ Len(r.response_value) > 0
    /\ ~parseInt(r.response_value).nan

\* if (r.response_value) { value = parseInt(..); if (!isNaN(value) && 1 <= value <= 5)
IsRating(r) ==
    /\ Len(r.response_value) > 0
    /\ LET value == parseInt(r.response_value) IN
        ~value.nan /\ value.n >= 1 /\ value.n <= 5

\* the loop accumulating totalRating and ratingCount
RECURSIVE RatingTotals(_, _, _)
RatingTotals(docs, i, acc) ==
    IF i > Len(docs) THEN acc
    ELSE RatingTotals(docs, i + 1,
            IF IsRating(docs[i])
            THEN [totalRating |-> acc.totalRating + parseInt(docs[i].response_value).n,
                  ratingCount |-> acc.ratingCount + 1]
            ELSE acc)

\* ratingCount > 0 ? totalRating / ratingCount : 0
AverageRating(docs) ==
    LET t == RatingTotals(docs, 1, [totalRating |-> 0, ratingCount |-> 0]) IN
    IF t.ratingCount > 0 THEN Quotient(t.totalRating, t.ratingCount) ELSE 0

\* faulty variant: the divisor has no default
CompletionTotal_noDefault(questionsByType, type) == GetOr0(questionsByType, type)

\* const total = questionsByType[type] || 1
CompletionTotal(questionsByType, type) ==
    IF GetOr0(questionsByType, type) = 0 THEN 1 ELSE questionsByType[type]

\* faulty variant: the loop runs over the types that have responses
CompletionRate_responseTypes(typeCount, questionsByType) ==
    [type \in DOMAIN typeCount |->
        RoundPercent(GetOr0(typeCount, type),
                     CompletionTotal(questionsByType, type))]

\* Object.keys(questionsByType).forEach(type => completionRate[type] = ...)
CompletionRate(typeCount, questionsByType) ==
    [type \in DOMAIN questionsByType |->
        LET responded == GetOr0(typeCount, type)
            total == CompletionTotal(questionsByType, type)
        IN  RoundPercent(responded, total)]

HasQuestion(r) == r.question_id # 0

\* faulty variant: responses of a deleted question are skipped
TypeCount_knownQuestions(docs) ==
    CountByType(SelectSeq(docs, HasQuestion), 1, EmptyRecord)

TypeCount(docs) == CountByType(docs, 1, EmptyRecord)

\* Object.keys(typeCount).map(type => ({ ... }))
ChartData(docs) ==
    LET typeCount == TypeCount(docs)
        keys == SelectSeq(KeysInOrder(docs, 1, <<>>),
                          LAMBDA k : k \in DOMAIN typeCount)
    IN  [k \in 1..Len(keys) |->
            [respondent_type |-> keys[k],
             average_score |-> AverageRating(docs),
             response_count |-> typeCount[keys[k]]]]

InitialStats ==
    [totalQuestions |-> 0, totalResponses |-> 0, responsesByType |-> EmptyRecord,
     averageRating |-> 0, completionRate |-> EmptyRecord, chartData |-> <<>>]

QuestionDocs == [respondent_type : StoreTypes]

ResponseDocs ==
    [question_id : StoreQuestionIds, respondent_type : StoreTypes,
     response_value : StoreValues]

SeqsUpTo(S, n) == UNION {[1..k -> S] : k \in 0..n}

----------------------------------------------------------------------------
(* Structured response parser: the match and JSON.parse steps of           *)
(* analyzeResponses and generateReport, src/functions/src/index.ts         *)

MaxChunks == 4
MaxAffix == 2

\* JSON values: kind is "obj", "arr", "str", "num", "true", "false" or "null";
\* items holds an object's members (key, val) or an array's elements (val)
JNull == [kind |-> "null", num |-> 0, str |-> <<>>, items |-> <<>>]

JLit(k) == [kind |-> k, num |-> 0, str |-> <<>>, items |-> <<>>]

JNum(n) == [kind |-> "num", num |-> n, str |-> <<>>, items |-> <<>>]

JStr(cs) == [kind |-> "str", num |-> 0, str |-> cs, items |-> <<>>]

JObj(members) == [kind |-> "obj", num |-> 0, str |-> <<>>, items |-> members]

JArr(elements) == [kind |-> "arr", num |-> 0, str |-> <<>>, items |-> elements]

Member(k, v) == [key |-> k, val |-> v]

Fail == [ok |-> FALSE, val |-> JNull, pos |-> 0]

Ok(v, p) == [ok |-> TRUE, val |-> v, pos |-> p]

\* the index of the first quote at or after i, 0 when there is none
RECURSIVE NextQuote(_, _)
NextQuote(s, i) ==
    IF i > Len(s) THEN 0
    ELSE IF s[i] = "\"" THEN i
    ELSE NextQuote(s, i + 1)

RECURSIVE DigitsEnd(_, _)
DigitsEnd(s, i) ==
    IF i <= Len(s) /\ s[i] \in Digits THEN DigitsEnd(s, i + 1) ELSE i

\* a JSON string starting at the quote s[i]; a raw line break inside it is an
\* error (no text of the model holds a backslash)
ParseStringAt(s, i) ==
    LET j == NextQuote(s, i + 1) IN
    IF j = 0 THEN Fail
    ELSE IF \E k \in (i + 1)..(j - 1) : s[k] = "\n" THEN Fail
    ELSE Ok(JStr(SubSeq(s, i + 1, j - 1)), j + 1)

\* a JSON integer starting at s[i]: -? (0 | [1-9][0-9]*)
ParseNumberAt(s, i) ==
    LET neg == s[i] = "-"
        j == IF neg THEN i + 1 ELSE i
    IN  IF j > Len(s) \/ s[j] \notin Digits THEN Fail
        ELSE IF s[j] = "0" THEN Ok(JNum(0), j + 1)
        ELSE Ok(JNum((IF neg THEN 0 - 1 ELSE 1) * ReadDigits(s, j, 0)),
                DigitsEnd(s, j))

StartsWith(s, i, word) ==
    /\ i + Len(word) - 1 <= Len(s)
    /\ SubSeq(s, i, i + Len(word) - 1) = word

\* obj[key] = val on the members parsed so far: a repeated key keeps its
\* place and takes the later value
\* faulty variant: a key that is already present keeps its value
SetMember_keepExisting(members, k, v) ==
    IF \E n \in 1..Len(members) : members[n].key = k
    THEN members
    ELSE Append(members, Member(k, v))

SetMember(members, k, v) ==
    IF \E n \in 1..Len(members) : members[n].key = k
    THEN [n \in 1..Len(members) |->
            IF members[n].key = k THEN Member(k, v) ELSE members[n]]
    ELSE Append(members, Member(k, v))

RECURSIVE ParseValue(_, _)
RECURSIVE ParseMembers(_, _, _, _)
RECURSIVE ParseElements(_, _, _, _)

\* the members of an object from s[i] on, white space before s[i] skipped
ParseMembers(s, i, acc, first) ==
    IF i > Len(s) THEN Fail
    ELSE IF first /\ s[i] = "}" THEN Ok(JObj(acc), i + 1)
    ELSE IF s[i] # "\"" THEN Fail
    ELSE LET k == ParseStringAt(s, i) IN
         IF ~k.ok THEN Fail
         ELSE LET c == SkipWhiteSpace(s, k.pos) IN
              IF c > Len(s) \/ s[c] # ":" THEN Fail
              ELSE LET v == ParseValue(s, c + 1) IN
                   IF ~v.ok THEN Fail
                   ELSE LET n == SkipWhiteSpace(s, v.pos)
                            members == SetMember(acc, k.val.str, v.val)
                        IN  IF n > Len(s) THEN Fail
                            ELSE IF s[n] = ","
                            THEN ParseMembers(s, SkipWhiteSpace(s, n + 1),
                                              members, FALSE)
                            ELSE IF s[n] = "}" THEN Ok(JObj(members), n + 1)
                            ELSE Fail

\* the elements of an array from s[i] on, white space before s[i] skipped
ParseElements(s, i, acc, first) ==
    IF i > Len(s) THEN Fail
    ELSE IF first /\ s[i] = "]" THEN Ok(JArr(acc), i + 1)
    ELSE LET v == ParseValue(s, i) IN
         IF ~v.ok THEN Fail
         ELSE LET n == SkipWhiteSpace(s, v.pos)
                  elements == Append(acc, Member(<<>>, v.val))
              IN  IF n > Len(s) THEN Fail
                  ELSE IF s[n] = ","
                  THEN ParseElements(s, SkipWhiteSpace(s, n + 1), elements, FALSE)
                  ELSE IF s[n] = "]" THEN Ok(JArr(elements), n + 1)
                  ELSE Fail

ParseValue(s, i) ==
    LET p == SkipWhiteSpace(s, i) IN
    IF p > Len(s) THEN Fail
    ELSE IF s[p] = "{" THEN ParseMembers(s, SkipWhiteSpace(s, p + 1), <<>>, TRUE)
    ELSE IF s[p] = "[" THEN ParseElements(s, SkipWhiteSpace(s, p + 1), <<>>, TRUE)
    ELSE IF s[p] = "\"" THEN ParseStringAt(s, p)
    ELSE IF s[p] \in Digits \cup {"-"} THEN ParseNumberAt(s, p)
    ELSE IF StartsWith(s, p, <<"t", "r", "u", "e">>) THEN Ok(JLit("true"), p + 4)
    ELSE IF StartsWith(s, p, <<"f", "a", "l", "s", "e">>) THEN Ok(JLit("false"), p + 5)
    ELSE IF StartsWith(s, p, <<"n", "u", "l", "l">>) THEN Ok(JNull, p + 4)
    ELSE Fail

\* JSON.parse(s): one value, white space around it, nothing else; ok = FALSE
\* stands for the SyntaxError it throws
JSONparse(s) ==
    LET r == ParseValue(s, 1) IN
    IF r.ok /\ SkipWhiteSpace(s, r.pos) > Len(s) THEN r ELSE Fail

RECURSIVE Concat(_)
Concat(parts) ==
    IF parts = <<>> THEN <<>> ELSE Head(parts) \o Concat(Tail(parts))

RECURSIVE JoinComma(_)
JoinComma(parts) ==
    IF parts = <<>> THEN <<>>
    ELSE IF Len(parts) = 1 THEN Head(parts)
    ELSE Head(parts) \o <<",">> \o JoinComma(Tail(parts))

NumeralOf(d) ==
    CASE d = 0 -> "0" [] d = 1 -> "1" [] d = 2 -> "2" [] d = 3 -> "3"
      [] d = 4 -> "4" [] d = 5 -> "5" [] d = 6 -> "6" [] d = 7 -> "7"
      [] d = 8 -> "8" [] d = 9 -> "9"

RECURSIVE DecimalOf(_)
DecimalOf(n) ==
    IF n < 10 THEN <<NumeralOf(n)>>
    ELSE Append(DecimalOf(n \div 10), NumeralOf(n % 10))

\* JSON.stringify(v) for the values above (no string holds a quote)
RECURSIVE JSONstringify(_)
JSONstringify(v) ==
    CASE v.kind = "obj" ->
            <<"{">> \o JoinComma([n \in 1..Len(v.items) |->
                        <<"\"">> \o v.items[n].key \o <<"\"", ":">>
                        \o JSONstringify(v.items[n].val)]) \o <<"}">>
      [] v.kind = "arr" ->
            <<"[">> \o JoinComma([n \in 1..Len(v.items) |->
                        JSONstringify(v.items[n].val)]) \o <<"]">>
      [] v.kind = "str" -> <<"\"">> \o v.str \o <<"\"">>
      [] v.kind = "num" ->
            IF v.num < 0 THEN <<"-">> \o DecimalOf(0 - v.num) ELSE DecimalOf(v.num)
      [] v.kind = "true" -> <<"t", "r", "u", "e">>
      [] v.kind = "false" -> <<"f", "a", "l", "s", "e">>
      [] v.kind = "null" -> <<"n", "u", "l", "l">>

RECURSIVE FirstIndexOf(_, _, _)
FirstIndexOf(s, c, i) ==
    IF i > Len(s) THEN 0
    ELSE IF s[i] = c THEN i
    ELSE FirstIndexOf(s, c, i + 1)

RECURSIVE LastIndexOf(_, _, _)
LastIndexOf(s, c, i) ==
    IF i < 1 THEN 0
    ELSE IF s[i] = c THEN i
    ELSE LastIndexOf(s, c, i - 1)

NoMatch == [found |-> FALSE, text |-> <<>>]

\* faulty variant: the quantifier is lazy, /\{[\s\S]*?\}/
match_lazy(text) ==
    LET open == FirstIndexOf(text, "{", 1)
        close == IF open = 0 THEN 0 ELSE FirstIndexOf(text, "}", open + 1)
    IN  IF open = 0 \/ close = 0 THEN NoMatch
        ELSE [found |-> TRUE, text |-> SubSeq(text, open, close)]

\* responseText.match(/\{[\s\S]*\}/): the leftmost "{" that a "}" follows,
\* and everything up to the last "}"
match(text) ==
    LET open == FirstIndexOf(text, "{", 1)
        close == LastIndexOf(text, "}", Len(text))
    IN  IF open = 0 \/ close < open THEN NoMatch
        ELSE [found |-> TRUE, text |-> SubSeq(text, open, close)]

Thrown(e) == [status |-> "error", error |-> e, value |-> JNull]

\* faulty variant: a span that does not parse yields an empty payload
parseStructuredOutput_lenient(text) ==
    LET jsonMatch == match(text) IN
    IF ~jsonMatch.found THEN Thrown("no-json")
    ELSE LET r == JSONparse(jsonMatch.text) IN
         IF r.ok THEN [status |-> "parsed", error |-> "", value |-> r.val]
         ELSE [status |-> "parsed", error |-> "", value |-> JObj(<<>>)]

\* const jsonMatch = responseText.match(..); if (!jsonMatch) throw new Error(..);
\* JSON.parse(jsonMatch[0])
parseStructuredOutput(text) ==
    LET jsonMatch == match(text) IN
    IF ~jsonMatch.found THEN Thrown("no-json")
    ELSE LET r == JSONparse(jsonMatch.text) IN
         IF r.ok THEN [status |-> "parsed", error |-> "", value |-> r.val]
         ELSE Thrown("syntax-error")

NoBracesHere ==
    <<"n", "o", " ", "b", "r", "a", "c", "e", "s", " ", "h", "e", "r", "e">>

\* the pieces the text of the generative service is put together from
TextChunks ==
    { NoBracesHere, <<"{">>, <<"}">>, <<"\"", "a", "\"", ":", "1">>,
      <<"\"", "a", "\"", ":">>, <<"\"", "}", "\"">>, <<",">> }

\* the pieces of the prose before and after a rendered payload
AffixChunks == { <<"o", "k">>, <<"\n">>, <<"{">>, <<"}">> }

\* the payloads rendered: {}, {"a":1}, {"a":{"a":1}}, {"a":"}"}, {"a":[1,{}]}
Payloads ==
    { JObj(<<>>),
      JObj(<<Member(<<"a">>, JNum(1))>>),
      JObj(<<Member(<<"a">>, JObj(<<Member(<<"a">>, JNum(1))>>))>>),
      JObj(<<Member(<<"a">>, JStr(<<"}">>))>>),
      JObj(<<Member(<<"a">>,
                    JArr(<<Member(<<>>, JNum(1)), Member(<<>>, JObj(<<>>))>>))>>) }

NoPayload == JNull

Pending == [status |-> "pending", error |-> "", value |-> JNull]

----------------------------------------------------------------------------
(* Report and analysis requests: the callable functions generateReport and *)
(* analyzeResponses, src/functions/src/index.ts, and their callers         *)
(* ReportGenerator.generateReport, src/src/components/QuestionManager.tsx, *)
(* and AIAnalysis.runAnalysis, src/unnamed/part_001                        *)

MaxRequestDocs == 1

\* the projects collection holds one project
StoredProjects == {"p1"}

\* data.projectId of a request: missing, the stored project, an unknown one
RequestProjectIds == {"", "p1", "p0"}

RequestKinds == {"report", "analysis"}

\* the substrings of the error message that make the callers show demo data
FallbackKeywords == {"not-found", "permission-denied", "unauthenticated"}

\* which of these substrings the message of an error thrown by the generative
\* service holds: none, or one of them
UpstreamErrors == {{}, {"permission-denied"}}

K_title == <<"t", "i", "t", "l", "e">>
K_sections == <<"s", "e", "c", "t", "i", "o", "n", "s">>
K_content == <<"c", "o", "n", "t", "e", "n", "t">>
K_summary == <<"s", "u", "m", "m", "a", "r", "y">>
K_themes == <<"t", "h", "e", "m", "e", "s">>
K_statistics == <<"s", "t", "a", "t", "i", "s", "t", "i", "c", "s">>
K_success == <<"s", "u", "c", "c", "e", "s", "s">>
K_report == <<"r", "e", "p", "o", "r", "t">>
K_analysis == <<"a", "n", "a", "l", "y", "s", "i", "s">>
K_totalResponses == <<"t", "o", "t", "a", "l", "R", "e", "s", "p", "o", "n", "s", "e", "s">>
K_averageRating == <<"a", "v", "e", "r", "a", "g", "e", "R", "a", "t", "i", "n", "g">>
K_completionRate == <<"c", "o", "m", "p", "l", "e", "t", "i", "o", "n", "R", "a", "t", "e">>
K_textResponses == <<"t", "e", "x", "t", "R", "e", "s", "p", "o", "n", "s", "e", "s">>
K_ratingResponses == <<"r", "a", "t", "i", "n", "g", "R", "e", "s", "p", "o", "n", "s", "e", "s">>
K_wordCloud == <<"w", "o", "r", "d", "C", "l", "o", "u", "d">>
K_recommendations == <<"r", "e", "c", "o", "m", "m", "e", "n", "d", "a", "t", "i", "o", "n", "s">>
K_sentiment == <<"s", "e", "n", "t", "i", "m", "e", "n", "t">>

JUndefined == JLit("undefined")

\* obj[key] of a parsed object
GetMember(obj, k) ==
    IF obj.kind = "obj" /\ \E n \in 1..Len(obj.items) : obj.items[n].key = k
    THEN obj.items[CHOOSE n \in 1..Len(obj.items) : obj.items[n].key = k].val
    ELSE JUndefined

\* the truthiness of a value
Truthy(v) ==
    CASE v.kind \in {"undefined", "null", "false", "NaN"} -> FALSE
      [] v.kind = "str" -> v.str # <<>>
      [] v.kind = "num" -> v.num # 0
      [] OTHER -> TRUE

\* a || b
OrElse(a, b) == IF Truthy(a) THEN a ELSE b

\* `${school?.school_name || ""} 학교 평가 보고서`
ServerDefaultTitle == JStr(<<"S", " ", "r", "e", "p", "o", "r", "t">>)

\* the texts the generative service returns: prose around a report payload, an
\* analysis payload (each with a statistics key of its own), prose alone, and
\* a span that is not JSON
ReportText ==
    <<"o", "k", "\n">> \o
    JSONstringify(JObj(<<
        Member(K_title, JStr(<<"T">>)),
        Member(K_sections, JArr(<<Member(<<>>, JObj(<<
            Member(K_title, JStr(<<"S">>)),
            Member(K_content, JStr(<<"C">>))>>))>>)),
        Member(K_statistics, JObj(<<Member(K_totalResponses, JNum(9))>>))>>))

AnalysisText ==
    JSONstringify(JObj(<<
        Member(K_summary, JStr(<<"S">>)),
        Member(K_themes, JArr(<<Member(<<>>, JStr(<<"t">>))>>)),
        Member(K_statistics, JObj(<<Member(K_totalResponses, JNum(9))>>))>>))

BrokenText == <<"{", "\"", "a", "\"", ":", "}">>

ServiceTexts == {ReportText, AnalysisText, NoBracesHere, BrokenText}

\* what the callable protocol delivers to the caller: the returned object, or
\* an error with its code and the keywords its message holds
Returned(body) == [ok |-> TRUE, body |-> body, code |-> "ok", mentions |-> {}]

HttpsError(code, mentions) ==
    [ok |-> FALSE, body |-> JUndefined, code |-> code, mentions |-> mentions]

NoResponse == [ok |-> FALSE, body |-> JUndefined, code |-> "none", mentions |-> {}]

\* the catch block of both functions: HttpsError("internal", `...: ${error}`)
InternalError(mentions) == HttpsError("internal", mentions)

\* a number that is not finite
JNaN == JLit("NaN")

JInfinity == JLit("Infinity")

\* responses.filter((r) => r.text_response)
HasText(r) == Truthy(r.text_response)

\* responses.filter((r) => r.rating_response !== null): an absent field is
\* undefined, which is not null
HasRatingField(r) == r.rating_response.kind # "null"

\* ratings.reduce((a, b) => a + b, 0) over numbers and undefined: the sum, or
\* NaN as soon as one operand is not a number
RECURSIVE SumRatings(_, _, _)
SumRatings(docs, i, acc) ==
    IF i > Len(docs) THEN acc
    ELSE SumRatings(docs, i + 1,
            IF acc.kind = "num" /\ docs[i].rating_response.kind = "num"
            THEN JNum(acc.num + docs[i].rating_response.num)
            ELSE JNaN)

\* Math.round(x * 10) / 10 of the quotient sum / count, scaled by 10000
RoundTenth(sum, count) == ((20 * sum + count) \div (2 * count)) * 1000

\* questionStats[n].averageRating: the question's id is its document id, here
\* its position in the fetched questions
QuestionAverage(n, docs) ==
    LET ratings == SelectSeq(docs, LAMBDA r : r.question_id = n /\ HasRatingField(r))
        total == SumRatings(ratings, 1, JNum(0))
    IN  IF Len(ratings) = 0 \/ total.kind # "num" \/ total.num = 0 THEN JNull
        ELSE JNum(RoundTenth(total.num, Len(ratings)))

RECURSIVE SumNums(_, _)
SumNums(vals, i) ==
    IF i > Len(vals) THEN 0 ELSE vals[i].num + SumNums(vals, i + 1)

\* statistics.averageRating of generateReport: the mean of the questions'
\* rounded averages, || 0
ReportAverageRating(qs, docs) ==
    LET avgs == SelectSeq([n \in 1..Len(qs) |-> QuestionAverage(n, docs)],
                          LAMBDA a : a.kind # "null")
    IN  IF Len(avgs) = 0 THEN JNum(0)
        ELSE JNum(SumNums(avgs, 1) \div Len(avgs))

\* faulty variant: the expected responses are one per question
ReportCompletionRate_perQuestion(qs, docs) ==
    IF Len(qs) = 0
    THEN IF Len(docs) = 0 THEN JNaN ELSE JInfinity
    ELSE JNum(RoundPercent(Len(docs), Len(qs)))

\* Math.round((responses.length / (questions.length * 10)) * 100)
ReportCompletionRate(qs, docs) ==
    IF Len(qs) = 0
    THEN IF Len(docs) = 0 THEN JNaN ELSE JInfinity
    ELSE JNum(RoundPercent(Len(docs), Len(qs) * 10))

\* the statistics object of generateReport
ReportStatistics(qs, docs) ==
    JObj(<<Member(K_totalResponses, JNum(Len(docs))),
           Member(K_averageRating, ReportAverageRating(qs, docs)),
           Member(K_completionRate, ReportCompletionRate(qs, docs))>>)

\* averageRating of analyzeResponses, rounded to a tenth
AnalysisAverageRating(docs) ==
    LET ratings == SelectSeq(docs, HasRatingField)
        total == SumRatings(ratings, 1, JNum(0))
    IN  IF Len(ratings) = 0 THEN JNum(0)
        ELSE IF total.kind # "num" THEN JNaN
        ELSE JNum(RoundTenth(total.num, Len(ratings)))

\* the statistics object of analyzeResponses
AnalysisStatistics(docs) ==
    JObj(<<Member(K_totalResponses, JNum(Len(docs))),
           Member(K_textResponses, JNum(Len(SelectSeq(docs, HasText)))),
           Member(K_ratingResponses, JNum(Len(SelectSeq(docs, HasRatingField)))),
           Member(K_averageRating, AnalysisAverageRating(docs))>>)

\* the object generateReport returns for parsed reportData
ReportBody(reportData, qs, docs) ==
    JObj(<<
        Member(K_success, JLit("true")),
        Member(K_report, JObj(<<
            Member(K_title, OrElse(GetMember(reportData, K_title), ServerDefaultTitle)),
            Member(K_sections, OrElse(GetMember(reportData, K_sections), JArr(<<>>))),
            Member(K_statistics, ReportStatistics(qs, docs))>>))>>)

\* the object analyzeResponses returns: { ...analysis, statistics }
AnalysisBody(analysis, docs) ==
    JObj(<<
        Member(K_success, JLit("true")),
        Member(K_analysis,
               JObj(SetMember(analysis.items, K_statistics, AnalysisStatistics(docs))))>>)

AnalysisPromptLimit == 50

ReportPromptLimit == 30

\* faulty variant: every text response is embedded
PromptTexts_unlimited(kind, docs) ==
    LET texts == SelectSeq(docs, HasText) IN
    [i \in 1..Len(texts) |->
        [tag |-> IF kind = "report" THEN texts[i].respondent_type ELSE "",
         text |-> texts[i].text_response]]

\* textResponses.slice(0, 50) of analyzeResponses, and
\* textResponses.slice(0, 30) of generateReport, whose entries are
\* `[${r.respondent_type}] ${r.text_response}`
PromptTexts(kind, docs) ==
    LET texts == SelectSeq(docs, HasText)
        limit == IF kind = "report" THEN ReportPromptLimit ELSE AnalysisPromptLimit
        kept == IF Len(texts) < limit THEN Len(texts) ELSE limit
    IN  [i \in 1..kept |->
            [tag |-> IF kind = "report" THEN texts[i].respondent_type ELSE "",
             text |-> texts[i].text_response]]

\* the validation and the reads before the generative call: an error to
\* return, or NoResponse when the function goes on to the call
FetchOutcome(kind, projectId, docs) ==
    IF projectId = "" THEN HttpsError("invalid-argument", {})
    ELSE IF projectId \notin StoredProjects THEN InternalError({})
    ELSE IF kind = "analysis" /\ docs = <<>> THEN InternalError({})
    ELSE NoResponse

\* from result.response.text() to the return or the catch block
AfterModelText(kind, text, qs, docs) ==
    LET p == parseStructuredOutput(text) IN
    IF p.status # "parsed" THEN InternalError({})
    ELSE IF kind = "report" THEN Returned(ReportBody(p.value, qs, docs))
    ELSE Returned(AnalysisBody(p.value, docs))

NoResult == [origin |-> "none"]

NoError == [shown |-> FALSE, mentions |-> {}]

\* sessionStorage.getItem("school_name"): absent or empty, or a name
SessionSchoolNames == {<<>>, <<"S">>}

\* `${schoolName} 학교평가 보고서` with schoolName = stored || fallbackName
ClientTitle(stored, fallbackName) ==
    JStr((IF stored # <<>> THEN stored ELSE fallbackName)
         \o <<" ", "r", "e", "p", "o", "r", "t">>)

\* faulty variant: the demo report is titled with the stored name alone and
\* drops its last section
FallbackReport_bare(schoolName) ==
    [origin |-> "fallback",
     title |-> JStr(schoolName),
     sections |-> << [id |-> "1", title |-> "1. Executive Summary"],
                     [id |-> "2", title |-> "2. Survey Overview"],
                     [id |-> "3", title |-> "3. Key Findings"],
                     [id |-> "4", title |-> "4. Domain Analysis"],
                     [id |-> "5", title |-> "5. Strengths & Improvements"] >>,
     totalResponses |-> 0]

\* the six-section demo report of ReportGenerator
FallbackReport(schoolName) ==
    [origin |-> "fallback",
     title |-> ClientTitle(schoolName, <<"t", "e", "s", "t", " ", "s", "c", "h", "o", "o", "l">>),
     sections |-> << [id |-> "1", title |-> "1. Executive Summary"],
                     [id |-> "2", title |-> "2. Survey Overview"],
                     [id |-> "3", title |-> "3. Key Findings"],
                     [id |-> "4", title |-> "4. Domain Analysis"],
                     [id |-> "5", title |-> "5. Strengths & Improvements"],
                     [id |-> "6", title |-> "6. Recommendations"] >>,
     totalResponses |-> 0]

\* the demo analysis of AIAnalysis
FallbackAnalysis ==
    [origin |-> "fallback",
     summary |-> "demo data",
     themes |-> <<"curriculum", "student guidance", "teacher development">>]

\* something.map(..) on the value: an array maps, undefined is replaced by []
\* before, anything else throws a TypeError
Mappable(v) == ~Truthy(v) \/ v.kind = "arr"

\* setReport({...}) from data.report
ReportFromData(reportData, schoolName) ==
    LET sections == OrElse(GetMember(reportData, K_sections), JArr(<<>>)) IN
    [origin |-> "generated",
     title |-> OrElse(GetMember(reportData, K_title),
                      ClientTitle(schoolName, <<"s", "c", "h", "o", "o", "l">>)),
     sections |-> [n \in 1..Len(sections.items) |->
                    [id |-> n,
                     title |-> GetMember(sections.items[n].val, K_title),
                     content |-> GetMember(sections.items[n].val, K_content)]],
     totalResponses |->
        OrElse(GetMember(GetMember(reportData, K_statistics), K_totalResponses),
               JNum(0)).num]

\* setAnalysis({...}) from data.analysis
AnalysisFromData(analysisData) ==
    [origin |-> "generated",
     summary |-> OrElse(GetMember(analysisData, K_summary), JStr(<<>>)),
     themes |-> OrElse(GetMember(analysisData, K_themes), JArr(<<>>)),
     statistics |-> GetMember(analysisData, K_statistics)]

RECURSIVE HasNonFinite(_)
HasNonFinite(v) ==
    \/ v.kind \in {"NaN", "Infinity"}
    \/ \E n \in 1..Len(v.items) : HasNonFinite(v.items[n].val)

RECURSIVE NonFiniteAsNull(_)
NonFiniteAsNull(v) ==
    IF v.kind \in {"NaN", "Infinity"} THEN JNull
    ELSE [v EXCEPT !.items = [n \in 1..Len(v.items) |->
            Member(v.items[n].key, NonFiniteAsNull(v.items[n].val))]]

\* what reaches the caller of what the function returned or threw. JSON has
\* no non-finite number; the encoding of one by the callable protocol lies
\* outside the repository, so it either arrives as null or fails the call
Deliveries(outcome) ==
    IF outcome.ok /\ HasNonFinite(outcome.body)
    THEN {Returned(NonFiniteAsNull(outcome.body)), InternalError({})}
    ELSE {outcome}

\* the try and catch blocks of generateReport / runAnalysis on the outcome of
\* the call: the new result state and the new error state
CallerHandles(kind, response, result, schoolName) ==
    LET field == IF kind = "report" THEN K_report ELSE K_analysis
        data == GetMember(response.body, field)
        listed == IF kind = "report" THEN GetMember(data, K_sections)
                  ELSE GetMember(data, K_wordCloud)
    IN  IF response.ok /\ Truthy(GetMember(response.body, K_success))
           /\ Truthy(data) /\ Mappable(listed)
        THEN [result |-> IF kind = "report" THEN ReportFromData(data, schoolName)
                         ELSE AnalysisFromData(data),
              error |-> {}, failed |-> FALSE]
        ELSE IF response.mentions \cap FallbackKeywords # {}
        THEN [result |-> IF kind = "report" THEN FallbackReport(schoolName)
                         ELSE FallbackAnalysis,
              error |-> response.mentions, failed |-> TRUE]
        ELSE [result |-> result, error |-> response.mentions, failed |-> TRUE]

\* the response documents requests are run against: as Survey writes them
\* (response_value only, the fields the functions read are absent), and
\* documents that carry text_response / rating_response
RequestResponseDocs ==
    { [question_id |-> 1, respondent_type |-> "teacher", response_value |-> v.val,
       text_response |-> v.text, rating_response |-> v.rating] :
      v \in { [val |-> <<"5">>, text |-> JUndefined, rating |-> JUndefined],
              [val |-> <<"g", "o", "o", "d">>, text |-> JUndefined, rating |-> JUndefined],
              [val |-> <<"5">>, text |-> JUndefined, rating |-> JNum(5)],
              [val |-> <<"2">>, text |-> JUndefined, rating |-> JNum(2)],
              [val |-> <<"g", "o", "o", "d">>, text |-> JStr(<<"g", "o", "o", "d">>),
               rating |-> JNull] } }

----------------------------------------------------------------------------
(* Survey pages, PriorityVoting and the writers of the store               *)

\* PriorityVoting's default for the maxSelections prop; TeacherSurvey passes
\* the same number
maxSelections == 3

\* Date.now() in addItem returns one of 1..MaxClock
MaxClock == 2

\* addDoc calls that reject in one behaviour
MaxWriteFailures == 1

\* questions the administrator deletes in one behaviour
MaxDeletions == 1

K_id == <<"i", "d">>

K_text == <<"t", "e", "x", "t">>

K_rank == <<"r", "a", "n", "k">>

\* question.options of a question that has none
NoOptions == [present |-> FALSE, items |-> <<>>]

Options(items) == [present |-> TRUE, items |-> items]

\* the six choices renderPriorityQuestion offers when options is missing
DefaultPriorityItems ==
    << <<"a">>, <<"b">>, <<"c">>, <<"d">>, <<"e">>, <<"f">> >>

\* const items = question.options || [ ... ]
PriorityItemsOf(q) ==
    IF q.options.present THEN q.options.items ELSE DefaultPriorityItems

\* `${questionId}-${Date.now()}`
ItemId(questionId, now) == DecimalOf(questionId) \o <<"-">> \o DecimalOf(now)

\* the PriorityItem[] as the value JSON.stringify receives
ItemsToJson(items) ==
    JArr([n \in 1..Len(items) |->
            Member(<<>>, JObj(<<Member(K_id, JStr(items[n].id)),
                                Member(K_text, JStr(items[n].text)),
                                Member(K_rank, JNum(items[n].rank))>>))])

\* the parsed value as the PriorityItem[] setSelectedItems receives
ItemsFromJson(v) ==
    IF v.kind # "arr" THEN <<>>
    ELSE [n \in 1..Len(v.items) |->
            [id |-> GetMember(v.items[n].val, K_id).str,
             text |-> GetMember(v.items[n].val, K_text).str,
             rank |-> GetMember(v.items[n].val, K_rank).num]]

\* the effect on [value]: a truthy value replaces the selection by what
\* JSON.parse returns, by [] when it throws
SyncSelected(value, current) ==
    IF ~Truthy(value) THEN current
    ELSE LET r == JSONparse(value.str) IN
         IF r.ok THEN ItemsFromJson(r.val) ELSE <<>>

Kept(items) == [emitted |-> FALSE, items |-> items]

Emitted(items) == [emitted |-> TRUE, items |-> items]

Rerank(items) == [i \in 1..Len(items) |-> [items[i] EXCEPT !.rank = i]]

\* faulty variant: a full selection still accepts a new item
addItem_unbounded(selected, questionId, text, now) ==
    IF \E i \in 1..Len(selected) : selected[i].text = text THEN Kept(selected)
    ELSE Emitted(Append(selected, [id |-> ItemId(questionId, now), text |-> text,
                                   rank |-> Len(selected) + 1]))

addItem(selected, questionId, text, now) ==
    IF Len(selected) >= maxSelections THEN Kept(selected)
    ELSE IF \E i \in 1..Len(selected) : selected[i].text = text THEN Kept(selected)
    ELSE Emitted(Append(selected, [id |-> ItemId(questionId, now), text |-> text,
                                   rank |-> Len(selected) + 1]))

\* faulty variant: the remaining items keep their ranks
removeItem_keepingRanks(selected, text) ==
    Emitted(SelectSeq(selected, LAMBDA item : item.text # text))

removeItem(selected, text) ==
    Emitted(Rerank(SelectSeq(selected, LAMBDA item : item.text # text)))

\* faulty variant: the moved item overwrites its neighbour
moveItem_overwriting(selected, index, direction) ==
    IF direction = "up" /\ index = 0 THEN Kept(selected)
    ELSE IF direction = "down" /\ index = Len(selected) - 1 THEN Kept(selected)
    ELSE LET swapIndex == IF direction = "up" THEN index - 1 ELSE index + 1
         IN  Emitted(Rerank([i \in 1..Len(selected) |->
                        IF i = swapIndex + 1 THEN selected[index + 1]
                        ELSE selected[i]]))

\* index counts from 0 as in the component
moveItem(selected, index, direction) ==
    IF direction = "up" /\ index = 0 THEN Kept(selected)
    ELSE IF direction = "down" /\ index = Len(selected) - 1 THEN Kept(selected)
    ELSE LET swapIndex == IF direction = "up" THEN index - 1 ELSE index + 1
         IN  Emitted(Rerank([i \in 1..Len(selected) |->
                        IF i = index + 1 THEN selected[swapIndex + 1]
                        ELSE IF i = swapIndex + 1 THEN selected[index + 1]
                        ELSE selected[i]]))

\* the record of the latest call of addItem, removeItem or moveItem: the
\* selection it found and the value it passed to onChange, if it passed one
NoCall ==
    [op |-> "none", text |-> <<>>, index |-> 0, direction |-> "", before |-> <<>>,
     emitted |-> FALSE, value |-> <<>>]

\* the stored survey links: two active ones and one that was deactivated
StoredLinks ==
    << [access_code |-> "T1", respondent_type |-> "teacher", is_active |-> TRUE],
       [access_code |-> "P1", respondent_type |-> "parent", is_active |-> TRUE],
       [access_code |-> "X0", respondent_type |-> "parent", is_active |-> FALSE] >>

AccessCodes == {"T1", "P1", "X0"}

SurveyPages == {"Survey", "TeacherSurvey"}

\* null
NoLink == [access_code |-> "", respondent_type |-> "", is_active |-> FALSE]

\* where access_code == accessCode and is_active == true, the first document
getSurveyLinkByCode(code) ==
    LET found == SelectSeq(StoredLinks,
                           LAMBDA l : l.access_code = code /\ l.is_active)
    IN  IF found = <<>> THEN NoLink ELSE found[1]

\* faulty variant: the respondent type is not part of the query
getQuestionsByProjectId_anyType(docs, respondentType) == docs

\* where respondent_type == respondentType, in order_index order
getQuestionsByProjectId(docs, respondentType) ==
    SelectSeq(docs, LAMBDA q : q.respondent_type = respondentType)

\* the project's questions as the administrator created them
SurveyQuestion(id, respondentType, questionType, required, options) ==
    [id |-> id, respondent_type |-> respondentType, question_type |-> questionType,
     is_required |-> required, options |-> options]

SurveyCatalogue ==
    << SurveyQuestion(1, "teacher", "rating", TRUE, NoOptions),
       SurveyQuestion(2, "teacher", "priority", TRUE, Options(<< <<"a">> >>)),
       SurveyQuestion(3, "parent", "text", TRUE, NoOptions),
       SurveyQuestion(4, "parent", "rating", FALSE, NoOptions) >>

\* a project whose only question is a priority question with four options
VotingCatalogue ==
    << SurveyQuestion(2, "teacher", "priority", TRUE,
                      Options(<< <<"a">>, <<"b">>, <<"c">>, <<"d">> >>)) >>

\* a project that surveys parents only
ParentCatalogue == SelectSeq(SurveyCatalogue, LAMBDA q : q.respondent_type = "parent")

SurveyQuestionIds == {SurveyCatalogue[n].id : n \in 1..Len(SurveyCatalogue)}

\* the component's responses state: responses[id] is undefined until answered
NoAnswers == [id \in SurveyQuestionIds |-> JUndefined]

\* the values of the radio group (of "1" .. "5") that a respondent picks
RatingChoices == {<<"2">>, <<"5">>}

\* what the text area holds after an edit
TextEntries == {<<>>, <<"o", "k">>}

\* the session id the component drew when it mounted
SessionId == "s1"

\* the question types each page renders
RenderedTypes(pageName) ==
    IF pageName = "TeacherSurvey" THEN {"rating", "text", "priority"}
    ELSE {"rating", "text"}

\* questions.filter(q => q.is_required && !responses[q.id])
UnansweredRequired(qs, given) ==
    SelectSeq(qs, LAMBDA q : q.is_required /\ ~Truthy(given[q.id]))

\* questions.filter(q => responses[q.id]).map(q => ({ ... }))
ResponsesToInsert(qs, given, link) ==
    LET answered == SelectSeq(qs, LAMBDA q : Truthy(given[q.id]))
    IN  [n \in 1..Len(answered) |->
            [question_id |-> answered[n].id,
             respondent_type |-> link.respondent_type,
             response_value |-> given[answered[n].id].str,
             session_id |-> SessionId]]

RemoveAt(s, n) == SubSeq(s, 1, n - 1) \o SubSeq(s, n + 1, Len(s))

\* the four queries of loadStats and what each has returned
StatsQueries == {"questionsCount", "responsesCount", "responses", "questions"}

NoQueries ==
    [pending |-> StatsQueries, questionsCount |-> 0, responsesCount |-> 0,
     responses |-> <<>>, questions |-> <<>>]

\* the object loadStats hands to setStats
StatsOf(questionsCount, responsesCount, responseDocs, questionDocs) ==
    LET typeCount == TypeCount(responseDocs)
        questionsByType == CountByType(questionDocs, 1, EmptyRecord)
    IN  [totalQuestions |-> questionsCount,
         totalResponses |-> responsesCount,
         responsesByType |-> typeCount,
         averageRating |-> AverageRating(responseDocs),
         completionRate |-> CompletionRate(typeCount, questionsByType),
         chartData |-> ChartData(responseDocs)]

----------------------------------------------------------------------------
(* Initial states, steps and specifications                                *)

GradeInit ==
    /\ gScores \in [1..2 -> GradeInputs]
    /\ gGrades = NoGrades
    /\ questions = <<>>
    /\ responses = <<>>
    /\ stats = InitialStats
    /\ loading = TRUE
    /\ loadError = FALSE
    /\ responseText = <<>>
    /\ payload = NoPayload
    /\ preamble = <<>>
    /\ trailing = <<>>
    /\ parsed = Pending
    /\ reqKind = "report"
    /\ reqProjectId = ""
    /\ fnPc = "idle"
    /\ fnFetched = FALSE
    /\ fnModelCalls = 0
    /\ fnPrompt = <<>>
    /\ fnOutcome = NoResponse
    /\ uiPc = "idle"
    /\ uiResult = NoResult
    /\ uiError = NoError
    /\ uiLoading = FALSE
    /\ page = "Survey"
    /\ accessCode = "X0"
    /\ surveyLink = NoLink
    /\ surveyQuestions = <<>>
    /\ answers = NoAnswers
    /\ sessionPc = "left"
    /\ addDocs = <<>>
    /\ submitAttempt = 0
    /\ selectedItems = <<>>
    /\ lastCall = NoCall
    /\ loadQueries = NoQueries
    /\ deletions = 0

SpecGrade == GradeInit /\ [][GradeNext]_vars

StatsInit ==
    /\ questions \in SeqsUpTo(QuestionDocs, MaxQuestions)
    /\ responses \in SeqsUpTo(ResponseDocs, MaxResponses)
    /\ stats = InitialStats
    /\ loading = TRUE
    /\ loadError = FALSE
    /\ gScores = NoScores
    /\ gGrades = NoGrades
    /\ responseText = <<>>
    /\ payload = NoPayload
    /\ preamble = <<>>
    /\ trailing = <<>>
    /\ parsed = Pending
    /\ reqKind = "report"
    /\ reqProjectId = ""
    /\ fnPc = "idle"
    /\ fnFetched = FALSE
    /\ fnModelCalls = 0
    /\ fnPrompt = <<>>
    /\ fnOutcome = NoResponse
    /\ uiPc = "idle"
    /\ uiResult = NoResult
    /\ uiError = NoError
    /\ uiLoading = FALSE
    /\ page = "Survey"
    /\ accessCode = "X0"
    /\ surveyLink = NoLink
    /\ surveyQuestions = <<>>
    /\ answers = NoAnswers
    /\ sessionPc = "left"
    /\ addDocs = <<>>
    /\ submitAttempt = 0
    /\ selectedItems = <<>>
    /\ lastCall = NoCall
    /\ loadQueries = NoQueries
    /\ deletions = 0

\* faulty variant: loading removes the responses that are not ratings
LoadStats_pruning ==
    /\ loading
    /\ responses' = SelectSeq(responses, IsRating)
    /\ stats' = [stats EXCEPT !.totalResponses = Len(responses)]
    /\ loading' = FALSE
    /\ UNCHANGED <<questions, loadError>>
    /\ UNCHANGED gradeVars
    /\ UNCHANGED surveyVars
    /\ UNCHANGED parserVars
    /\ UNCHANGED requestVars

\* loadStats when the four queries answer from one state of the store:
\* setStats, then setLoading(false)
LoadStats ==
    /\ loading
    /\ stats' = StatsOf(Len(questions), Len(responses), responses, questions)
    /\ loading' = FALSE
    /\ UNCHANGED <<questions, responses, loadError>>
    /\ UNCHANGED gradeVars
    /\ UNCHANGED surveyVars
    /\ UNCHANGED parserVars
    /\ UNCHANGED requestVars

\* loadStats when a query rejects: the catch logs, finally setLoading(false)
LoadStatsFails ==
    /\ loading
    /\ loading' = FALSE
    /\ loadError' = TRUE
    /\ UNCHANGED <<questions, responses, stats>>
    /\ UNCHANGED gradeVars
    /\ UNCHANGED surveyVars
    /\ UNCHANGED parserVars
    /\ UNCHANGED requestVars

StatsNext == LoadStats \/ LoadStatsFails

SpecStats == StatsInit /\ [][StatsNext]_vars

\* StatsCharts: const overallGrade = convertToGrade(overallAverage)
overallGrade == convertToGrade(stats.averageRating)

\* the end-to-end project: seven ratings and three more responses
E2ERatings ==
    << [question_id |-> 1, respondent_type |-> "teacher", response_value |-> <<"5">>],
       [question_id |-> 1, respondent_type |-> "teacher", response_value |-> <<"4">>],
       [question_id |-> 1, respondent_type |-> "teacher", response_value |-> <<"3">>],
       [question_id |-> 1, respondent_type |-> "teacher", response_value |-> <<"5">>],
       [question_id |-> 1, respondent_type |-> "teacher", response_value |-> <<"4">>],
       [question_id |-> 1, respondent_type |-> "parent", response_value |-> <<"2">>],
       [question_id |-> 1, respondent_type |-> "parent", response_value |-> <<"3">>] >>

E2EOthers == {r \in ResponseDocs : r.question_id = 1}

E2EInit ==
    /\ questions \in SeqsUpTo(QuestionDocs, 1)
    /\ \E others \in [1..3 -> E2EOthers] : responses = E2ERatings \o others
    /\ stats = InitialStats
    /\ loading = TRUE
    /\ loadError = FALSE
    /\ gScores = NoScores
    /\ gGrades = NoGrades
    /\ responseText = <<>>
    /\ payload = NoPayload
    /\ preamble = <<>>
    /\ trailing = <<>>
    /\ parsed = Pending
    /\ reqKind = "report"
    /\ reqProjectId = ""
    /\ fnPc = "idle"
    /\ fnFetched = FALSE
    /\ fnModelCalls = 0
    /\ fnPrompt = <<>>
    /\ fnOutcome = NoResponse
    /\ uiPc = "idle"
    /\ uiResult = NoResult
    /\ uiError = NoError
    /\ uiLoading = FALSE
    /\ page = "Survey"
    /\ accessCode = "X0"
    /\ surveyLink = NoLink
    /\ surveyQuestions = <<>>
    /\ answers = NoAnswers
    /\ sessionPc = "left"
    /\ addDocs = <<>>
    /\ submitAttempt = 0
    /\ selectedItems = <<>>
    /\ lastCall = NoCall
    /\ loadQueries = NoQueries
    /\ deletions = 0

SpecE2E == E2EInit /\ [][StatsNext]_vars

ParserInit ==
    /\ \/ /\ \E chunks \in SeqsUpTo(TextChunks, MaxChunks) :
                responseText = Concat(chunks)
          /\ payload = NoPayload
          /\ preamble = <<>>
          /\ trailing = <<>>
       \/ /\ payload \in Payloads
          /\ \E pre \in SeqsUpTo(AffixChunks, MaxAffix) : preamble = Concat(pre)
          /\ \E post \in SeqsUpTo(AffixChunks, MaxAffix) : trailing = Concat(post)
          /\ responseText = preamble \o JSONstringify(payload) \o trailing
    /\ parsed = Pending
    /\ gScores = NoScores
    /\ gGrades = NoGrades
    /\ questions = <<>>
    /\ responses = <<>>
    /\ stats = InitialStats
    /\ loading = TRUE
    /\ loadError = FALSE
    /\ reqKind = "report"
    /\ reqProjectId = ""
    /\ fnPc = "idle"
    /\ fnFetched = FALSE
    /\ fnModelCalls = 0
    /\ fnPrompt = <<>>
    /\ fnOutcome = NoResponse
    /\ uiPc = "idle"
    /\ uiResult = NoResult
    /\ uiError = NoError
    /\ uiLoading = FALSE
    /\ page = "Survey"
    /\ accessCode = "X0"
    /\ surveyLink = NoLink
    /\ surveyQuestions = <<>>
    /\ answers = NoAnswers
    /\ sessionPc = "left"
    /\ addDocs = <<>>
    /\ submitAttempt = 0
    /\ selectedItems = <<>>
    /\ lastCall = NoCall
    /\ loadQueries = NoQueries
    /\ deletions = 0

\* the parsing step of the two functions on the text the service returned
ParseStructuredOutput ==
    /\ parsed = Pending
    /\ parsed' = parseStructuredOutput(responseText)
    /\ UNCHANGED <<responseText, payload, preamble, trailing>>
    /\ UNCHANGED gradeVars
    /\ UNCHANGED statsVars
    /\ UNCHANGED surveyVars
    /\ UNCHANGED requestVars

ParserNext == ParseStructuredOutput

SpecParser == ParserInit /\ [][ParserNext]_vars

RequestInit ==
    /\ reqKind \in RequestKinds
    /\ reqProjectId \in RequestProjectIds
    /\ questions \in SeqsUpTo(QuestionDocs, MaxRequestDocs)
    /\ responses \in SeqsUpTo(RequestResponseDocs, MaxRequestDocs)
    /\ fnPc = "idle"
    /\ fnFetched = FALSE
    /\ fnModelCalls = 0
    /\ fnPrompt = <<>>
    /\ fnOutcome = NoResponse
    /\ uiPc = "idle"
    /\ uiResult = NoResult
    /\ uiError = NoError
    /\ uiLoading = FALSE
    /\ responseText = <<>>
    /\ payload = NoPayload
    /\ preamble = <<>>
    /\ trailing = <<>>
    /\ parsed = Pending
    /\ gScores = NoScores
    /\ gGrades = NoGrades
    /\ stats = InitialStats
    /\ loading = TRUE
    /\ loadError = FALSE
    /\ page = "Survey"
    /\ accessCode = "X0"
    /\ surveyLink = NoLink
    /\ surveyQuestions = <<>>
    /\ answers = NoAnswers
    /\ sessionPc = "left"
    /\ addDocs = <<>>
    /\ submitAttempt = 0
    /\ selectedItems = <<>>
    /\ lastCall = NoCall
    /\ loadQueries = NoQueries
    /\ deletions = 0

\* the button is pressed: setLoading(true), setError(null), the callable is
\* invoked with { projectId }
StartRequest ==
    /\ uiPc \in {"idle", "done"}
    /\ uiPc' = "calling"
    /\ uiLoading' = TRUE
    /\ uiError' = NoError
    /\ fnPc' = "requested"
    /\ fnFetched' = FALSE
    /\ fnModelCalls' = 0
    /\ fnPrompt' = <<>>
    /\ fnOutcome' = NoResponse
    /\ responseText' = <<>>
    /\ parsed' = Pending
    /\ UNCHANGED <<reqKind, reqProjectId, uiResult, payload, preamble, trailing>>
    /\ UNCHANGED gradeVars
    /\ UNCHANGED statsVars
    /\ UNCHANGED surveyVars

\* the function is not deployed or not callable: the call is rejected with
\* one of the codes the callers test for, which is also the message
FunctionUnavailable ==
    /\ fnPc = "requested"
    /\ \E code \in FallbackKeywords : fnOutcome' = HttpsError(code, {code})
    /\ fnPc' = "rejected"
    /\ UNCHANGED <<reqKind, reqProjectId, fnFetched, fnModelCalls, fnPrompt,
                   uiPc, uiResult, uiError, uiLoading>>
    /\ UNCHANGED gradeVars
    /\ UNCHANGED statsVars
    /\ UNCHANGED surveyVars
    /\ UNCHANGED parserVars

\* the function validates data.projectId and reads the project's data, then
\* calls generateContent
FunctionFetches ==
    /\ fnPc = "requested"
    /\ LET early == FetchOutcome(reqKind, reqProjectId, responses) IN
       IF early = NoResponse
       THEN /\ fnFetched' = TRUE
            /\ fnModelCalls' = fnModelCalls + 1
            /\ fnPrompt' = PromptTexts(reqKind, responses)
            /\ fnPc' = "awaiting_model"
            /\ UNCHANGED fnOutcome
       ELSE /\ fnOutcome' = early
            /\ fnPc' = "returned"
            /\ UNCHANGED <<fnFetched, fnModelCalls, fnPrompt>>
    /\ UNCHANGED <<reqKind, reqProjectId, uiPc, uiResult, uiError, uiLoading>>
    /\ UNCHANGED gradeVars
    /\ UNCHANGED statsVars
    /\ UNCHANGED surveyVars
    /\ UNCHANGED parserVars

\* generateContent resolves with a text; the function parses it and returns
ModelReturns ==
    /\ fnPc = "awaiting_model"
    /\ \E text \in ServiceTexts :
        /\ responseText' = text
        /\ parsed' = parseStructuredOutput(text)
        /\ fnOutcome' = AfterModelText(reqKind, text, questions, responses)
    /\ fnPc' = "returned"
    /\ UNCHANGED <<reqKind, reqProjectId, fnFetched, fnModelCalls, fnPrompt,
                   uiPc, uiResult, uiError, uiLoading>>
    /\ UNCHANGED <<payload, preamble, trailing>>
    /\ UNCHANGED gradeVars
    /\ UNCHANGED statsVars
    /\ UNCHANGED surveyVars

\* faulty variant: a rejected call is repeated
ModelThrows_retrying ==
    /\ fnPc = "awaiting_model"
    /\ fnModelCalls <= 2
    /\ fnModelCalls' = fnModelCalls + 1
    /\ UNCHANGED <<reqKind, reqProjectId, fnPc, fnFetched, fnPrompt, fnOutcome,
                   uiPc, uiResult, uiError, uiLoading>>
    /\ UNCHANGED gradeVars
    /\ UNCHANGED statsVars
    /\ UNCHANGED surveyVars
    /\ UNCHANGED parserVars

\* generateContent rejects; the catch block rethrows with the error's text
ModelThrows ==
    /\ fnPc = "awaiting_model"
    /\ \E mentions \in UpstreamErrors : fnOutcome' = InternalError(mentions)
    /\ fnPc' = "returned"
    /\ UNCHANGED <<reqKind, reqProjectId, fnFetched, fnModelCalls, fnPrompt,
                   uiPc, uiResult, uiError, uiLoading>>
    /\ UNCHANGED gradeVars
    /\ UNCHANGED statsVars
    /\ UNCHANGED surveyVars
    /\ UNCHANGED parserVars

\* the awaited call settles in the component: try, catch and finally
CallerReceives ==
    /\ uiPc = "calling"
    /\ fnPc \in {"returned", "rejected"}
    /\ \E schoolName \in SessionSchoolNames, delivered \in Deliveries(fnOutcome) :
        LET h == CallerHandles(reqKind, delivered, uiResult, schoolName) IN
        /\ uiResult' = h.result
        /\ uiError' = IF h.failed THEN [shown |-> TRUE, mentions |-> h.error]
                      ELSE uiError
    /\ uiLoading' = FALSE
    /\ uiPc' = "done"
    /\ fnPc' = "idle"
    /\ UNCHANGED <<reqKind, reqProjectId, fnFetched, fnModelCalls, fnPrompt, fnOutcome>>
    /\ UNCHANGED gradeVars
    /\ UNCHANGED statsVars
    /\ UNCHANGED surveyVars
    /\ UNCHANGED parserVars

RequestNext ==
    \/ StartRequest
    \/ FunctionUnavailable
    \/ FunctionFetches
    \/ ModelReturns
    \/ ModelThrows
    \/ CallerReceives

SpecRequest == RequestInit /\ [][RequestNext]_vars

MaxTexts == 52

\* the n-th text response of a long list, and a response without text
TextDoc(n) ==
    [question_id |-> 1, respondent_type |-> IF n % 2 = 0 THEN "parent" ELSE "teacher",
     response_value |-> DecimalOf(n), text_response |-> JStr(DecimalOf(n)),
     rating_response |-> JNull]

PlainDoc ==
    [question_id |-> 1, respondent_type |-> "teacher", response_value |-> <<"5">>,
     text_response |-> JUndefined, rating_response |-> JUndefined]

\* requests against a project with up to MaxTexts text responses, in fetched
\* order, after a response without text or not
PromptInit ==
    /\ reqKind \in RequestKinds
    /\ reqProjectId = "p1"
    /\ questions = <<[respondent_type |-> "teacher"]>>
    /\ \E n \in 0..MaxTexts, lead \in SeqsUpTo({PlainDoc}, 1) :
            responses = lead \o [i \in 1..n |-> TextDoc(i)]
    /\ fnPc = "idle"
    /\ fnFetched = FALSE
    /\ fnModelCalls = 0
    /\ fnPrompt = <<>>
    /\ fnOutcome = NoResponse
    /\ uiPc = "idle"
    /\ uiResult = NoResult
    /\ uiError = NoError
    /\ uiLoading = FALSE
    /\ responseText = <<>>
    /\ payload = NoPayload
    /\ preamble = <<>>
    /\ trailing = <<>>
    /\ parsed = Pending
    /\ gScores = NoScores
    /\ gGrades = NoGrades
    /\ stats = InitialStats
    /\ loading = TRUE
    /\ loadError = FALSE
    /\ page = "Survey"
    /\ accessCode = "X0"
    /\ surveyLink = NoLink
    /\ surveyQuestions = <<>>
    /\ answers = NoAnswers
    /\ sessionPc = "left"
    /\ addDocs = <<>>
    /\ submitAttempt = 0
    /\ selectedItems = <<>>
    /\ lastCall = NoCall
    /\ loadQueries = NoQueries
    /\ deletions = 0

SpecPrompt == PromptInit /\ [][RequestNext]_vars

\* a stats load and requests running side by side on the same stored data
SharedInit ==
    /\ reqKind \in RequestKinds
    /\ reqProjectId \in RequestProjectIds
    /\ questions \in SeqsUpTo(QuestionDocs, MaxRequestDocs)
    /\ responses \in SeqsUpTo(RequestResponseDocs, MaxRequestDocs)
    /\ fnPc = "idle"
    /\ fnFetched = FALSE
    /\ fnModelCalls = 0
    /\ fnPrompt = <<>>
    /\ fnOutcome = NoResponse
    /\ uiPc = "idle"
    /\ uiResult = NoResult
    /\ uiError = NoError
    /\ uiLoading = FALSE
    /\ responseText = <<>>
    /\ payload = NoPayload
    /\ preamble = <<>>
    /\ trailing = <<>>
    /\ parsed = Pending
    /\ gScores = NoScores
    /\ gGrades = NoGrades
    /\ stats = InitialStats
    /\ loading = TRUE
    /\ loadError = FALSE
    /\ page = "Survey"
    /\ accessCode = "X0"
    /\ surveyLink = NoLink
    /\ surveyQuestions = <<>>
    /\ answers = NoAnswers
    /\ sessionPc = "left"
    /\ addDocs = <<>>
    /\ submitAttempt = 0
    /\ selectedItems = <<>>
    /\ lastCall = NoCall
    /\ loadQueries = NoQueries
    /\ deletions = 0

SharedNext == StatsNext \/ RequestNext

SpecShared == SharedInit /\ [][SharedNext]_vars

\* loadSurvey once getSurveyLinkByCode has answered: a missing or inactive
\* link leaves for "/", Survey hands a teacher link to TeacherSurvey, which
\* mounts with the same access code, any other link is kept
LinkResolves ==
    /\ sessionPc = "mounting"
    /\ LET linkData == getSurveyLinkByCode(accessCode) IN
       IF linkData = NoLink
       THEN /\ sessionPc' = "left"
            /\ UNCHANGED <<page, surveyLink>>
       ELSE IF ~linkData.is_active
       THEN /\ sessionPc' = "left"
            /\ UNCHANGED <<page, surveyLink>>
       ELSE IF page = "Survey" /\ linkData.respondent_type = "teacher"
       THEN /\ page' = "TeacherSurvey"
            /\ UNCHANGED <<sessionPc, surveyLink>>
       ELSE /\ surveyLink' = linkData
            /\ sessionPc' = "fetching_questions"
            /\ UNCHANGED page
    /\ UNCHANGED <<accessCode, surveyQuestions, answers, addDocs, submitAttempt>>
    /\ UNCHANGED <<selectedItems, lastCall, loadQueries, deletions>>
    /\ UNCHANGED <<gradeVars, statsVars, parserVars, requestVars>>

\* loadSurvey once getQuestionsByProjectId has answered: setQuestions, then
\* setLoading(false) shows the form
QuestionsResolve ==
    /\ sessionPc = "fetching_questions"
    /\ surveyQuestions' = getQuestionsByProjectId(questions, surveyLink.respondent_type)
    /\ sessionPc' = "form"
    /\ UNCHANGED <<page, accessCode, surveyLink, answers, addDocs, submitAttempt>>
    /\ UNCHANGED <<selectedItems, lastCall, loadQueries, deletions>>
    /\ UNCHANGED <<gradeVars, statsVars, parserVars, requestVars>>

\* loadSurvey when one of its two queries rejects: after the catch the
\* form is rendered with what was set before
LoadSurveyFails ==
    /\ sessionPc \in {"mounting", "fetching_questions"}
    /\ sessionPc' = "form"
    /\ UNCHANGED <<page, accessCode, surveyLink, surveyQuestions, answers, addDocs,
                   submitAttempt>>
    /\ UNCHANGED <<selectedItems, lastCall, loadQueries, deletions>>
    /\ UNCHANGED <<gradeVars, statsVars, parserVars, requestVars>>

\* the question at position n is on the page and is of one of the types
IsRendered(n, types) ==
    /\ sessionPc = "form"
    /\ n \in 1..Len(surveyQuestions)
    /\ surveyQuestions[n].question_type \in types \cap RenderedTypes(page)

\* handleResponseChange(question.id, value) from the radio group
SelectRating ==
    \E n \in 1..Len(surveyQuestions), value \in RatingChoices :
        /\ IsRendered(n, {"rating"})
        /\ answers' = [answers EXCEPT ![surveyQuestions[n].id] = JStr(value)]
        /\ UNCHANGED <<page, accessCode, surveyLink, surveyQuestions, sessionPc,
                       addDocs, submitAttempt>>
        /\ UNCHANGED <<selectedItems, lastCall, loadQueries, deletions>>
        /\ UNCHANGED <<gradeVars, statsVars, parserVars, requestVars>>

\* handleResponseChange(question.id, e.target.value) from the text area
EnterText ==
    \E n \in 1..Len(surveyQuestions), value \in TextEntries :
        /\ IsRendered(n, {"text"})
        /\ answers' = [answers EXCEPT ![surveyQuestions[n].id] = JStr(value)]
        /\ UNCHANGED <<page, accessCode, surveyLink, surveyQuestions, sessionPc,
                       addDocs, submitAttempt>>
        /\ UNCHANGED <<selectedItems, lastCall, loadQueries, deletions>>
        /\ UNCHANGED <<gradeVars, statsVars, parserVars, requestVars>>

\* what a call of PriorityVoting on question q leaves behind: a call that
\* returns early changes nothing; otherwise setSelectedItems, onChange, the
\* parent's handleResponseChange and the effect on the new value prop
VotingCall(q, call, result) ==
    /\ lastCall' = [call EXCEPT !.before = selectedItems,
                                !.emitted = result.emitted,
                                !.value = IF result.emitted
                                          THEN JSONstringify(ItemsToJson(result.items))
                                          ELSE <<>>]
    /\ IF result.emitted
       THEN LET value == JStr(JSONstringify(ItemsToJson(result.items))) IN
            /\ answers' = [answers EXCEPT ![q.id] = value]
            /\ selectedItems' = SyncSelected(value, result.items)
       ELSE UNCHANGED <<answers, selectedItems>>
    /\ UNCHANGED <<page, accessCode, surveyLink, surveyQuestions, sessionPc,
                   addDocs, submitAttempt>>
    /\ UNCHANGED <<loadQueries, deletions>>
    /\ UNCHANGED <<gradeVars, statsVars, parserVars, requestVars>>

\* addItem(text) for one of the offered items
AddItem ==
    \E n \in 1..Len(surveyQuestions), now \in 1..MaxClock :
        /\ IsRendered(n, {"priority"})
        /\ LET q == surveyQuestions[n] IN
           \E k \in 1..Len(PriorityItemsOf(q)) :
               LET text == PriorityItemsOf(q)[k] IN
               VotingCall(q, [NoCall EXCEPT !.op = "addItem", !.text = text],
                          addItem(selectedItems, q.id, text, now))

\* removeItem(text) for one of the selected items
RemoveItem ==
    \E n \in 1..Len(surveyQuestions), k \in 1..Len(selectedItems) :
        /\ IsRendered(n, {"priority"})
        /\ LET text == selectedItems[k].text IN
           VotingCall(surveyQuestions[n],
                      [NoCall EXCEPT !.op = "removeItem", !.text = text],
                      removeItem(selectedItems, text))

\* moveItem(index, direction) for one of the selected items
MoveItem ==
    \E n \in 1..Len(surveyQuestions), k \in 1..Len(selectedItems),
       direction \in {"up", "down"} :
        /\ IsRendered(n, {"priority"})
        /\ VotingCall(surveyQuestions[n],
                      [NoCall EXCEPT !.op = "moveItem", !.index = k - 1,
                                     !.direction = direction],
                      moveItem(selectedItems, k - 1, direction))

VotingNext == AddItem \/ RemoveItem \/ MoveItem

\* handleSubmit up to the await: nothing without a link, nothing but a toast
\* when a required question has no truthy answer, otherwise createResponses starts
\* one addDoc per response document
HandleSubmit ==
    /\ sessionPc = "form"
    /\ surveyLink # NoLink
    /\ IF UnansweredRequired(surveyQuestions, answers) # <<>>
       THEN UNCHANGED <<sessionPc, addDocs, submitAttempt>>
       ELSE LET responsesToInsert ==
                    ResponsesToInsert(surveyQuestions, answers, surveyLink)
            IN  /\ sessionPc' = "submitting"
                /\ submitAttempt' = submitAttempt + 1
                /\ addDocs' = addDocs \o
                        [n \in 1..Len(responsesToInsert) |->
                            [doc |-> responsesToInsert[n],
                             attempt |-> submitAttempt + 1,
                             state |-> "pending"]]
    /\ UNCHANGED <<page, accessCode, surveyLink, surveyQuestions, answers>>
    /\ UNCHANGED <<selectedItems, lastCall, loadQueries, deletions>>
    /\ UNCHANGED <<gradeVars, statsVars, parserVars, requestVars>>

\* one addDoc of createResponses is fulfilled: the document is stored
AddDocSucceeds ==
    \E n \in 1..Len(addDocs) :
        /\ addDocs[n].state = "pending"
        /\ addDocs' = [addDocs EXCEPT ![n].state = "written"]
        /\ responses' = Append(responses, addDocs[n].doc)
        /\ UNCHANGED <<page, accessCode, surveyLink, surveyQuestions, answers,
                       sessionPc, submitAttempt>>
        /\ UNCHANGED <<selectedItems, lastCall, loadQueries, deletions>>
        /\ UNCHANGED <<questions, stats, loading, loadError>>
        /\ UNCHANGED <<gradeVars, parserVars, requestVars>>

FailedAddDocs == SelectSeq(addDocs, LAMBDA w : w.state = "failed")

\* one addDoc of createResponses is rejected: nothing is stored for it
AddDocFails ==
    \E n \in 1..Len(addDocs) :
        /\ addDocs[n].state = "pending"
        /\ Len(FailedAddDocs) < MaxWriteFailures
        /\ addDocs' = [addDocs EXCEPT ![n].state = "failed"]
        /\ UNCHANGED <<page, accessCode, surveyLink, surveyQuestions, answers,
                       sessionPc, submitAttempt>>
        /\ UNCHANGED <<selectedItems, lastCall, loadQueries, deletions>>
        /\ UNCHANGED <<gradeVars, statsVars, parserVars, requestVars>>

\* the addDoc calls of the createResponses that handleSubmit awaits
CurrentAddDocs == SelectSeq(addDocs, LAMBDA w : w.attempt = submitAttempt)

\* Promise.all is fulfilled when every addDoc is: setCompleted(true)
SubmitResolves ==
    /\ sessionPc = "submitting"
    /\ \A n \in 1..Len(CurrentAddDocs) : CurrentAddDocs[n].state = "written"
    /\ sessionPc' = "completed"
    /\ UNCHANGED <<page, accessCode, surveyLink, surveyQuestions, answers, addDocs,
                   submitAttempt>>
    /\ UNCHANGED <<selectedItems, lastCall, loadQueries, deletions>>
    /\ UNCHANGED <<gradeVars, statsVars, parserVars, requestVars>>

\* Promise.all is rejected as soon as one addDoc is: after the catch
\* the form, with its answers, accepts another submission
SubmitRejects ==
    /\ sessionPc = "submitting"
    /\ \E n \in 1..Len(CurrentAddDocs) : CurrentAddDocs[n].state = "failed"
    /\ sessionPc' = "form"
    /\ UNCHANGED <<page, accessCode, surveyLink, surveyQuestions, answers, addDocs,
                   submitAttempt>>
    /\ UNCHANGED <<selectedItems, lastCall, loadQueries, deletions>>
    /\ UNCHANGED <<gradeVars, statsVars, parserVars, requestVars>>

SessionNext ==
    \/ LinkResolves
    \/ QuestionsResolve
    \/ LoadSurveyFails
    \/ SelectRating
    \/ EnterText
    \/ HandleSubmit
    \/ AddDocSucceeds
    \/ AddDocFails
    \/ SubmitResolves
    \/ SubmitRejects

\* faulty variant: the responses of the deleted question go with it
DeleteQuestion_cascading ==
    \E n \in 1..Len(questions) :
        /\ deletions < MaxDeletions
        /\ questions' = RemoveAt(questions, n)
        /\ responses' = SelectSeq(responses,
                                  LAMBDA r : r.question_id # questions[n].id)
        /\ deletions' = deletions + 1
        /\ UNCHANGED <<page, accessCode, surveyLink, surveyQuestions, answers,
                       sessionPc, addDocs, submitAttempt>>
        /\ UNCHANGED <<selectedItems, lastCall, loadQueries>>
        /\ UNCHANGED <<stats, loading, loadError>>
        /\ UNCHANGED <<gradeVars, parserVars, requestVars>>

\* QuestionManager.handleDelete: deleteQuestion(deleteTarget) deletes the
\* question document
DeleteQuestion ==
    \E n \in 1..Len(questions) :
        /\ deletions < MaxDeletions
        /\ questions' = RemoveAt(questions, n)
        /\ deletions' = deletions + 1
        /\ UNCHANGED <<page, accessCode, surveyLink, surveyQuestions, answers,
                       sessionPc, addDocs, submitAttempt>>
        /\ UNCHANGED <<selectedItems, lastCall, loadQueries>>
        /\ UNCHANGED <<responses, stats, loading, loadError>>
        /\ UNCHANGED <<gradeVars, parserVars, requestVars>>

\* one of the four queries of loadStats answers with what the store holds
\* at that moment
QueryResolves ==
    \E name \in loadQueries.pending :
        /\ loading
        /\ loadQueries' =
              [loadQueries EXCEPT
                  !.pending = @ \ {name},
                  !.questionsCount = IF name = "questionsCount" THEN Len(questions) ELSE @,
                  !.responsesCount = IF name = "responsesCount" THEN Len(responses) ELSE @,
                  !.responses = IF name = "responses" THEN responses ELSE @,
                  !.questions = IF name = "questions" THEN questions ELSE @]
        /\ UNCHANGED <<page, accessCode, surveyLink, surveyQuestions, answers,
                       sessionPc, addDocs, submitAttempt>>
        /\ UNCHANGED <<selectedItems, lastCall, deletions>>
        /\ UNCHANGED <<gradeVars, statsVars, parserVars, requestVars>>

\* Promise.all of the four queries is fulfilled: setStats, setLoading(false)
PublishStats ==
    /\ loading
    /\ loadQueries.pending = {}
    /\ stats' = StatsOf(loadQueries.questionsCount, loadQueries.responsesCount,
                        loadQueries.responses, loadQueries.questions)
    /\ loading' = FALSE
    /\ UNCHANGED <<page, accessCode, surveyLink, surveyQuestions, answers,
                   sessionPc, addDocs, submitAttempt>>
    /\ UNCHANGED <<selectedItems, lastCall, loadQueries, deletions>>
    /\ UNCHANGED <<questions, responses, loadError>>
    /\ UNCHANGED <<gradeVars, parserVars, requestVars>>

\* PriorityVoting on the teacher page of a project whose only question is a
\* priority question
VotingInit ==
    /\ page = "TeacherSurvey"
    /\ accessCode = "T1"
    /\ surveyLink = getSurveyLinkByCode("T1")
    /\ surveyQuestions = VotingCatalogue
    /\ answers = NoAnswers
    /\ sessionPc = "form"
    /\ addDocs = <<>>
    /\ submitAttempt = 0
    /\ selectedItems = <<>>
    /\ lastCall = NoCall
    /\ loadQueries = NoQueries
    /\ deletions = 0
    /\ questions = VotingCatalogue
    /\ responses = <<>>
    /\ stats = InitialStats
    /\ loading = TRUE
    /\ loadError = FALSE
    /\ gScores = NoScores
    /\ gGrades = NoGrades
    /\ responseText = <<>>
    /\ payload = NoPayload
    /\ preamble = <<>>
    /\ trailing = <<>>
    /\ parsed = Pending
    /\ reqKind = "report"
    /\ reqProjectId = ""
    /\ fnPc = "idle"
    /\ fnFetched = FALSE
    /\ fnModelCalls = 0
    /\ fnPrompt = <<>>
    /\ fnOutcome = NoResponse
    /\ uiPc = "idle"
    /\ uiResult = NoResult
    /\ uiError = NoError
    /\ uiLoading = FALSE

SpecVoting == VotingInit /\ [][VotingNext]_vars

\* a respondent opens either page with one of the access codes while the
\* administrator may delete a question
SurveyInit ==
    /\ page \in SurveyPages
    /\ accessCode \in AccessCodes
    /\ surveyLink = NoLink
    /\ surveyQuestions = <<>>
    /\ answers = NoAnswers
    /\ sessionPc = "mounting"
    /\ addDocs = <<>>
    /\ submitAttempt = 0
    /\ selectedItems = <<>>
    /\ lastCall = NoCall
    /\ loadQueries = NoQueries
    /\ deletions = 0
    /\ questions = SurveyCatalogue
    /\ responses = <<>>
    /\ stats = InitialStats
    /\ loading = TRUE
    /\ loadError = FALSE
    /\ gScores = NoScores
    /\ gGrades = NoGrades
    /\ responseText = <<>>
    /\ payload = NoPayload
    /\ preamble = <<>>
    /\ trailing = <<>>
    /\ parsed = Pending
    /\ reqKind = "report"
    /\ reqProjectId = ""
    /\ fnPc = "idle"
    /\ fnFetched = FALSE
    /\ fnModelCalls = 0
    /\ fnPrompt = <<>>
    /\ fnOutcome = NoResponse
    /\ uiPc = "idle"
    /\ uiResult = NoResult
    /\ uiError = NoError
    /\ uiLoading = FALSE

SurveyNext ==
    \/ LinkResolves
    \/ QuestionsResolve
    \/ LoadSurveyFails
    \/ SelectRating
    \/ EnterText
    \/ VotingNext
    \/ HandleSubmit
    \/ AddDocSucceeds
    \/ SubmitResolves
    \/ DeleteQuestion

SpecSurvey == SurveyInit /\ [][SurveyNext]_vars

\* ProjectStats loads while a parent answers the survey and the
\* administrator may delete a question
LoadInit ==
    /\ page = "Survey"
    /\ accessCode = "P1"
    /\ surveyLink = NoLink
    /\ surveyQuestions = <<>>
    /\ answers = NoAnswers
    /\ sessionPc = "mounting"
    /\ addDocs = <<>>
    /\ submitAttempt = 0
    /\ selectedItems = <<>>
    /\ lastCall = NoCall
    /\ loadQueries = NoQueries
    /\ deletions = 0
    /\ questions = ParentCatalogue
    /\ responses = <<>>
    /\ stats = InitialStats
    /\ loading = TRUE
    /\ loadError = FALSE
    /\ gScores = NoScores
    /\ gGrades = NoGrades
    /\ responseText = <<>>
    /\ payload = NoPayload
    /\ preamble = <<>>
    /\ trailing = <<>>
    /\ parsed = Pending
    /\ reqKind = "report"
    /\ reqProjectId = ""
    /\ fnPc = "idle"
    /\ fnFetched = FALSE
    /\ fnModelCalls = 0
    /\ fnPrompt = <<>>
    /\ fnOutcome = NoResponse
    /\ uiPc = "idle"
    /\ uiResult = NoResult
    /\ uiError = NoError
    /\ uiLoading = FALSE

LoadNext ==
    \/ QueryResolves
    \/ PublishStats
    \/ LoadStatsFails
    \/ LinkResolves
    \/ QuestionsResolve
    \/ SelectRating
    \/ EnterText
    \/ HandleSubmit
    \/ AddDocSucceeds
    \/ SubmitResolves
    \/ DeleteQuestion

SpecLoad == LoadInit /\ [][LoadNext]_vars

\* a parent answers the survey while single writes to the store may fail
SubmitInit ==
    /\ page = "Survey"
    /\ accessCode = "P1"
    /\ surveyLink = NoLink
    /\ surveyQuestions = <<>>
    /\ answers = NoAnswers
    /\ sessionPc = "mounting"
    /\ addDocs = <<>>
    /\ submitAttempt = 0
    /\ selectedItems = <<>>
    /\ lastCall = NoCall
    /\ loadQueries = NoQueries
    /\ deletions = 0
    /\ questions = SurveyCatalogue
    /\ responses = <<>>
    /\ stats = InitialStats
    /\ loading = TRUE
    /\ loadError = FALSE
    /\ gScores = NoScores
    /\ gGrades = NoGrades
    /\ responseText = <<>>
    /\ payload = NoPayload
    /\ preamble = <<>>
    /\ trailing = <<>>
    /\ parsed = Pending
    /\ reqKind = "report"
    /\ reqProjectId = ""
    /\ fnPc = "idle"
    /\ fnFetched = FALSE
    /\ fnModelCalls = 0
    /\ fnPrompt = <<>>
    /\ fnOutcome = NoResponse
    /\ uiPc = "idle"
    /\ uiResult = NoResult
    /\ uiError = NoError
    /\ uiLoading = FALSE

SpecSubmit == SubmitInit /\ [][SessionNext]_vars

----------------------------------------------------------------------------
(* Properties                                                              *)

GradeRank(level) ==
    CASE level = "poor" -> 0
      [] level = "average" -> 1
      [] level = "good" -> 2
      [] level = "excellent" -> 3

\* C1: convertToGrade is total with half-open bins checked in descending
\* order: a >= 4.2 is excellent, 3.4 <= a < 4.2 good, 2.6 <= a < 3.4 average,
\* a < 2.6 poor; 4.2 -> excellent, 4.1999 -> good, 2.6 -> average,
\* 2.5999 -> poor.
C1_HalfOpenBins ==
    \A i \in 1..2 :
        gGrades[i] # "pending" =>
            LET a == gScores[i] g == gGrades[i] IN
            /\ (a >= 42000) <=> (g = "excellent")
            /\ (a >= 34000 /\ a < 42000) <=> (g = "good")
            /\ (a >= 26000 /\ a < 34000) <=> (g = "average")
            /\ (a < 26000) <=> (g = "poor")
            /\ (a = 42000 => g = "excellent")
            /\ (a = 41999 => g = "good")
            /\ (a = 26000 => g = "average")
            /\ (a = 25999 => g = "poor")

C1_Witness ==
    /\ gScores[1] = 42000 /\ gGrades[1] = "excellent"
    /\ gScores[2] = 41999 /\ gGrades[2] = "good"

\* C2: convertToGrade is monotonic non-decreasing under
\* poor < average < good < excellent, and every input yields one of the four
\* grades.
C2_Monotonic ==
    /\ \A i \in 1..2 : gGrades[i] \in GradeLevels \cup {"pending"}
    /\ \A i, j \in 1..2 :
        (gGrades[i] # "pending" /\ gGrades[j] # "pending"
            /\ gScores[i] <= gScores[j])
        => GradeRank(gGrades[i]) <= GradeRank(gGrades[j])

C2_Witness ==
    /\ gScores[1] = 33999 /\ gScores[2] = 34000
    /\ gGrades[1] = "average" /\ gGrades[2] = "good"

\* the published statistics come from a load that succeeded
Loaded == ~loading /\ ~loadError

\* the number of stored responses of respondent type t
ResponsesOfType(t) ==
    Cardinality({i \in 1..Len(responses) : responses[i].respondent_type = t})

QuestionsOfType(t) ==
    Cardinality({i \in 1..Len(questions) : questions[i].respondent_type = t})

\* a response_value that is an integer in [1,5]: a digit string, nothing else
IntegerRating(v) ==
    IF Len(v) > 0 /\ (\A i \in 1..Len(v) : v[i] \in Digits)
        /\ ReadDigits(v, 1, 0) \in 1..5
    THEN ReadDigits(v, 1, 0) ELSE 0

RECURSIVE IntegerRatingSum(_)
IntegerRatingSum(n) ==
    IF n = 0 THEN 0
    ELSE IntegerRatingSum(n - 1) + IntegerRating(responses[n].response_value)

IntegerRatingCount ==
    Cardinality({i \in 1..Len(responses) :
                    IntegerRating(responses[i].response_value) # 0})

\* C3: averageRating is the sum divided by the count of exactly the responses
\* whose value is an integer in [1,5]; free text, a priority list, an empty
\* value and an integer outside [1,5] add to neither; 0 when none qualifies.
C3_AverageOverIntegerRatings ==
    Loaded =>
        stats.averageRating =
            IF IntegerRatingCount = 0 THEN 0
            ELSE (IntegerRatingSum(Len(responses)) * 10000) \div IntegerRatingCount

\* C4: responsesByType[t] is the number of fetched responses of respondent
\* type t, for every t; a response of a deleted question, or of a type without
\* questions, is counted too.
C4_ResponsesByType ==
    Loaded =>
        /\ DOMAIN stats.responsesByType = {t \in StoreTypes : ResponsesOfType(t) > 0}
        /\ \A t \in StoreTypes :
            GetOr0(stats.responsesByType, t) = ResponsesOfType(t)

C4_Witness ==
    /\ Loaded
    /\ \E i \in 1..Len(responses) :
        /\ responses[i].question_id = 0
        /\ QuestionsOfType(responses[i].respondent_type) = 0
        /\ Len(questions) > 0
        /\ stats.responsesByType[responses[i].respondent_type] = 2

\* C5: completionRate has an entry exactly for the types that have a question,
\* and completionRate[t] = round(responsesByType[t] / max(questionsByType[t],1)
\* * 100), responsesByType[t] being 0 for a type without responses; a type with
\* responses and no question has no entry.
C5_CompletionRate ==
    Loaded =>
        /\ DOMAIN stats.completionRate = {t \in StoreTypes : QuestionsOfType(t) > 0}
        /\ \A t \in DOMAIN stats.completionRate :
            LET c == stats.completionRate[t]
                r == ResponsesOfType(t)
                q == IF QuestionsOfType(t) > 1 THEN QuestionsOfType(t) ELSE 1
            IN  \* c is 100 * r / q rounded half up
                /\ (2 * c - 1) * q <= 200 * r
                /\ 200 * r < (2 * c + 1) * q

C5_Witness ==
    /\ Loaded
    /\ QuestionsOfType("teacher") = 3 /\ ResponsesOfType("teacher") = 2
    /\ stats.completionRate["teacher"] = 67
    /\ QuestionsOfType("parent") = 0
    /\ "parent" \notin DOMAIN stats.completionRate

\* C6: completionRate[t] lies in [0,100] whenever questionsByType[t] >=
\* responsesByType[t], and the divisor of the rate is never zero, also for a
\* type without questions and for an empty question set.
C6_RateInRange ==
    /\ \A t \in StoreTypes :
        CompletionTotal(CountByType(questions, 1, EmptyRecord), t) >= 1
    /\ Loaded =>
        \A t \in DOMAIN stats.completionRate :
            QuestionsOfType(t) >= ResponsesOfType(t)
                => stats.completionRate[t] \in 0..100

C6_Witness ==
    /\ Loaded
    /\ QuestionsOfType("teacher") = 2 /\ ResponsesOfType("teacher") = 1
    /\ stats.completionRate["teacher"] = 50
    /\ QuestionsOfType("parent") = 1 /\ ResponsesOfType("parent") = 0
    /\ stats.completionRate["parent"] = 0

\* parseInt reads the value of one of the three further responses as a rating
OtherReadAsRating ==
    \E i \in (Len(E2ERatings) + 1)..Len(responses) :
        LET v == responses[i].response_value IN
        Len(v) > 0 /\ ~parseInt(v).nan /\ parseInt(v).n \in 1..5

E2ELoaded == Loaded /\ Len(responses) = 10 /\ SubSeq(responses, 1, 7) = E2ERatings

\* C7 as stated: 10 responses, teachers rating 5,4,3,5,4 and parents rating
\* 2,3, give averageRating 26/7, grade good and
\* responsesByType = {teacher:5, parent:2}.
C7_EndToEndAsStated ==
    (E2ELoaded /\ ~OtherReadAsRating) =>
        /\ stats.averageRating = 37142
        /\ overallGrade.level = "good"
        /\ stats.responsesByType = [t \in {"teacher", "parent"} |->
                                        IF t = "teacher" THEN 5 ELSE 2]

\* C7 amended: with none of the three further values read as a rating,
\* averageRating is 26/7 and the grade good; responsesByType counts all ten
\* responses, the three further ones under their own respondent types.
C7_EndToEnd ==
    (E2ELoaded /\ ~OtherReadAsRating) =>
        /\ stats.averageRating = 37142
        /\ 7 * stats.averageRating <= 260000
        /\ 260000 < 7 * (stats.averageRating + 1)
        /\ overallGrade.level = "good"
        /\ stats.totalResponses = 10
        /\ GetOr0(stats.responsesByType, "teacher")
            + GetOr0(stats.responsesByType, "parent") = 10
        /\ stats.responsesByType["teacher"] =
            5 + Cardinality({i \in 8..10 : responses[i].respondent_type = "teacher"})
        /\ stats.responsesByType["parent"] =
            2 + Cardinality({i \in 8..10 : responses[i].respondent_type = "parent"})

C7_Witness ==
    /\ E2ELoaded /\ ~OtherReadAsRating
    /\ \A i \in 8..10 : responses[i].response_value = <<"g", "o", "o", "d">>
    /\ stats.responsesByType["teacher"] = 6
    /\ stats.responsesByType["parent"] = 4
    /\ stats.averageRating = 37142

\* the braces of the text of the generative service
OpenBraces == {i \in 1..Len(responseText) : responseText[i] = "{"}

CloseBraces == {i \in 1..Len(responseText) : responseText[i] = "}"}

HasSpan == \E o \in OpenBraces, c \in CloseBraces : o < c

\* from the first "{" to the last "}"
WidestSpan ==
    SubSeq(responseText,
           CHOOSE o \in OpenBraces : \A x \in OpenBraces : o <= x,
           CHOOSE c \in CloseBraces : \A x \in CloseBraces : x <= c)

\* C8: parsing takes the widest brace-delimited span of the text, first "{" to
\* last "}"; it fails, with no payload, when the text has no such span or the
\* span is not well-formed JSON; the text "no braces here" fails.
C8_WidestSpanOrFail ==
    parsed # Pending =>
        /\ ~HasSpan => parsed.status = "error"
        /\ (HasSpan /\ ~JSONparse(WidestSpan).ok) => parsed.status = "error"
        /\ (HasSpan /\ JSONparse(WidestSpan).ok) =>
                /\ parsed.status = "parsed"
                /\ parsed.value = JSONparse(WidestSpan).val
        /\ parsed.status = "error" => parsed.value = JNull
        /\ responseText = NoBracesHere => parsed.status = "error"

C8_Witness ==
    /\ payload = NoPayload
    /\ responseText = <<"{", "\"", "a", "\"", ":", "\"", "}", "\"", "}">>
    /\ parsed.status = "parsed"
    /\ parsed.value = JObj(<<Member(<<"a">>, JStr(<<"}">>))>>)

Has(s, c) == \E i \in 1..Len(s) : s[i] = c

\* C9 as stated: for every payload P, every preamble and every trailing text,
\* parsing "preamble {json(P)} trailing" recovers P exactly.
C9_RoundTripAsStated ==
    (payload # NoPayload /\ parsed # Pending) =>
        parsed.status = "parsed" /\ parsed.value = payload

\* C9 amended: for every payload P, every preamble that holds no "{" and every
\* trailing text that holds no "}", parsing "preamble {json(P)} trailing"
\* recovers P exactly.
C9_RoundTrip ==
    (payload # NoPayload /\ parsed # Pending
        /\ ~Has(preamble, "{") /\ ~Has(trailing, "}")) =>
        parsed.status = "parsed" /\ parsed.value = payload

C9_Witness ==
    /\ payload = JObj(<<Member(<<"a">>, JObj(<<Member(<<"a">>, JNum(1))>>))>>)
    /\ preamble = <<"o", "k", "}">>
    /\ trailing = <<"{", "o", "k">>
    /\ parsed.status = "parsed"
    /\ parsed.value = payload

RequestDone == uiPc = "done"

\* the request failed after the function had read the project's data
FailedAfterFetch == RequestDone /\ fnFetched /\ ~fnOutcome.ok

\* C10: for a report and for an analysis request, once the project's data has
\* been fetched, a later failure (the generative call throws, or its text
\* cannot be parsed) ends with the component holding a report / analysis
\* built from the fallback content, never with a failure and no result.
C10_FailureYieldsFallback ==
    FailedAfterFetch => uiResult.origin = "fallback"

FallbackSectionTitles ==
    << "1. Executive Summary", "2. Survey Overview", "3. Key Findings",
       "4. Domain Analysis", "5. Strengths & Improvements", "6. Recommendations" >>

HoldsFallbackReport == reqKind = "report" /\ uiResult.origin = "fallback"

\* C11: whenever the fallback report is produced it has exactly six sections,
\* in the order Executive Summary, Survey Overview, Key Findings, Domain
\* Analysis, Strengths & Improvements, Recommendations, and a non-empty title,
\* whatever the stored school name and whichever failure triggered it.
C11_FallbackReportShape ==
    HoldsFallbackReport =>
        /\ Len(uiResult.sections) = 6
        /\ [n \in 1..6 |-> uiResult.sections[n].title] = FallbackSectionTitles
        /\ uiResult.title.kind = "str"
        /\ uiResult.title.str # <<>>

\* the fallback report shown with no school name stored, after a failure
\* that came from the function itself
C11_Witness ==
    /\ HoldsFallbackReport
    /\ RequestDone
    /\ fnFetched
    /\ uiResult.title.str = <<"t", "e", "s", "t", " ", "s", "c", "h", "o", "o", "l",
                              " ", "r", "e", "p", "o", "r", "t">>

\* the function ran and has returned or thrown
FunctionReturned == fnPc = "returned"

NothingToFetch ==
    /\ reqProjectId # ""
    /\ \/ reqProjectId \notin StoredProjects
       \/ reqKind = "analysis" /\ responses = <<>>

\* C12: a request without a projectId reaches the caller as invalid-argument,
\* and a request for a project that does not exist (or an analysis request
\* for a project without responses) reaches the caller as not-found, not as
\* any other kind of error.
C12_SurfacedVerbatim ==
    FunctionReturned =>
        /\ reqProjectId = "" => fnOutcome.code = "invalid-argument"
        /\ NothingToFetch => fnOutcome.code = "not-found"

\* C13: the generative service is called only after the fetch succeeded:
\* never when the projectId is missing, the project does not exist, or the
\* project has no responses; those requests end in an error without a result.
C13_ModelOnlyAfterFetch ==
    /\ fnModelCalls > 0 =>
        /\ reqProjectId \in StoredProjects
        /\ responses # <<>>
    /\ (FunctionReturned /\ (reqProjectId \notin StoredProjects \/ responses = <<>>)) =>
        ~fnOutcome.ok

ReturnedReport == fnOutcome.ok /\ reqKind = "report"

ReturnedAnalysis == fnOutcome.ok /\ reqKind = "analysis"

ReturnedStatistics ==
    GetMember(GetMember(fnOutcome.body, IF reqKind = "report" THEN K_report
                                        ELSE K_analysis), K_statistics)

\* C14: in every report generateReport returns, statistics.completionRate is
\* round(totalResponses / (totalQuestions * 10) * 100) for the numbers of
\* responses and questions fetched (a quotient that is not finite when there
\* is no question).
C14_ReportCompletionRate ==
    ReturnedReport =>
        LET r == Len(responses)
            q == Len(questions)
            rate == GetMember(ReturnedStatistics, K_completionRate)
        IN  /\ GetMember(ReturnedStatistics, K_totalResponses) = JNum(r)
            /\ IF q > 0
               THEN rate = JNum((20 * r + q) \div (2 * q))
               ELSE rate.kind \in {"NaN", "Infinity"}

C14_Witness ==
    /\ ReturnedReport
    /\ Len(questions) = 1
    /\ Len(responses) = 1
    /\ GetMember(ReturnedStatistics, K_completionRate) = JNum(10)

\* C15: in every report generateReport returns, statistics.completionRate is
\* a finite number in [0,100], also for a project without questions and for a
\* project with more than 10 responses per question.
C15_CompletionRateIsPercent ==
    ReturnedReport =>
        LET rate == GetMember(ReturnedStatistics, K_completionRate) IN
        rate.kind = "num" /\ rate.num >= 0 /\ rate.num <= 100

NarrativeKeys == {K_summary, K_themes, K_recommendations, K_sentiment, K_wordCloud}

\* C16: when the model output parses, the result carries the parsed
\* narrative verbatim (report: the payload's sections, the empty list when
\* it has none; analysis: the payload's summary, themes, recommendations,
\* sentiment, wordCloud), and its statistics are the ones computed from
\* the stored responses: no key of the payload, one named statistics
\* included, replaces or alters them.
C16_NarrativeVerbatimStatisticsComputed ==
    fnOutcome.ok =>
        /\ parsed.status = "parsed"
        /\ GetMember(ReturnedStatistics, K_totalResponses) = JNum(Len(responses))
        /\ IF reqKind = "report"
           THEN LET report == GetMember(fnOutcome.body, K_report) IN
                /\ GetMember(report, K_sections) =
                      IF Truthy(GetMember(parsed.value, K_sections))
                      THEN GetMember(parsed.value, K_sections) ELSE JArr(<<>>)
                /\ GetMember(report, K_statistics) = ReportStatistics(questions, responses)
           ELSE LET analysis == GetMember(fnOutcome.body, K_analysis) IN
                /\ \A k \in NarrativeKeys :
                      GetMember(analysis, k) = GetMember(parsed.value, k)
                /\ GetMember(analysis, K_statistics) = AnalysisStatistics(responses)

\* an analysis returned for a payload that has a statistics key of its own,
\* which differs from the computed one
C16_Witness ==
    /\ ReturnedAnalysis
    /\ Truthy(GetMember(parsed.value, K_statistics))
    /\ GetMember(parsed.value, K_statistics) # AnalysisStatistics(responses)
    /\ Truthy(GetMember(parsed.value, K_summary))

\* C17: the averageRating of a generated report's statistics is the sum of
\* all rating values of the project's responses divided by their count (0
\* without ratings), the value the statistics aggregator yields for the same
\* responses.
C17_ReportAverageIsAggregate ==
    ReturnedReport =>
        GetMember(ReturnedStatistics, K_averageRating) = JNum(AverageRating(responses))

\* C18: each analysis or report request calls the generative service at most
\* once: after a failed or unparsable generation the same request does not
\* call it again; a further call needs a new request.
C18_SingleModelCall == fnModelCalls <= 1

\* a request that ended after an unparsable generation, with its one call
C18_Witness ==
    /\ FailedAfterFetch
    /\ parsed.status = "error"
    /\ fnModelCalls = 1

\* C19: loading the statistics, analysis requests and report requests only
\* read the shared data: in every interleaving, succeeding or failing, the
\* stored questions and responses stay as they are (projects and schools are
\* fixed in this model).
C19_ReadOnly == [][questions' = questions /\ responses' = responses]_vars

\* a stats load and a failed request have both finished on stored responses
C19_Witness ==
    /\ ~loading
    /\ RequestDone
    /\ ~fnOutcome.ok
    /\ fnFetched
    /\ responses # <<>>

TextsOf(docs) ==
    LET texts == SelectSeq(docs, HasText) IN
    [i \in 1..Len(texts) |-> texts[i].text_response]

EmbeddedTexts == [i \in 1..Len(fnPrompt) |-> fnPrompt[i].text]

FirstTexts(limit) ==
    LET texts == TextsOf(responses) IN
    SubSeq(texts, 1, IF Len(texts) < limit THEN Len(texts) ELSE limit)

\* the function is past its reads whenever the project has responses
NeverRefusedForSize ==
    (fnPc \in {"awaiting_model", "returned"} /\ responses # <<>>) => fnFetched

RatedResponses == SelectSeq(responses, LAMBDA r : r.rating_response.kind = "num")

\* C29: in the analysis output statistics.ratingResponses counts exactly the
\* fetched responses that carry a rating value (null or absent is not
\* counted), and statistics.averageRating is a number: 0 exactly when there
\* is no such response, otherwise the mean of the ratings rounded to a tenth.
C29_RatingCountAndAverage ==
    ReturnedAnalysis =>
        LET n == Len(RatedResponses)
            total == SumNums([i \in 1..n |-> RatedResponses[i].rating_response], 1)
            average == GetMember(ReturnedStatistics, K_averageRating)
        IN  /\ GetMember(ReturnedStatistics, K_ratingResponses) = JNum(n)
            /\ average.kind = "num"
            /\ (average.num = 0) <=> (n = 0)
            /\ n > 0 => average.num = ((20 * total + n) \div (2 * n)) * 1000

ResponsesOfChartType(t) == SelectSeq(responses, LAMBDA r : r.respondent_type = t)

\* C30: in the chart data built by loadStats the entry of respondent type t
\* has response_count equal to the number of responses of type t and
\* average_score equal to the mean of the ratings given by respondents of
\* type t (0 when that type has no rating).
C30_ChartPerTypeAverage ==
    Loaded =>
        \A k \in 1..Len(stats.chartData) :
            LET entry == stats.chartData[k]
                own == ResponsesOfChartType(entry.respondent_type)
            IN  /\ entry.response_count = Len(own)
                /\ entry.average_score = AverageRating(own)

\* the question with this id as the administrator created it
CatalogueQuestion(id) ==
    SurveyCatalogue[CHOOSE n \in 1..Len(SurveyCatalogue) : SurveyCatalogue[n].id = id]

\* C21: every response written through Survey or TeacherSurvey, stored or
\* on its way to the store, carries the respondent type of the question it
\* answers, whichever access code and page the respondent used.
C21_ResponseTypeOfQuestion ==
    /\ \A k \in 1..Len(responses) :
          responses[k].respondent_type =
              CatalogueQuestion(responses[k].question_id).respondent_type
    /\ \A n \in 1..Len(addDocs) :
          addDocs[n].doc.respondent_type =
              CatalogueQuestion(addDocs[n].doc.question_id).respondent_type

\* a parent link opened on the teacher page has stored a response
C21_Witness ==
    /\ page = "TeacherSurvey"
    /\ surveyLink.respondent_type = "parent"
    /\ \E k \in 1..Len(responses) : responses[k].respondent_type = "parent"

\* C22: a step that deletes a question removes that question document only
\* and leaves every stored response as it was, also the responses that
\* reference the deleted question.
C22_DeleteDoesNotCascade ==
    [][deletions' # deletions =>
            /\ responses' = responses
            /\ Len(questions') = Len(questions) - 1
            /\ \A n \in 1..Len(questions') :
                  \E k \in 1..Len(questions) : questions'[n] = questions[k]]_vars

\* a stored response references a question that has been deleted
C22_Witness ==
    /\ deletions > 0
    /\ \E k \in 1..Len(responses) :
          \A n \in 1..Len(questions) : questions[n].id # responses[k].question_id

\* the text JSON.stringify yields for one PriorityItem
EncodeItem(item) ==
    <<"{", "\"", "i", "d", "\"", ":", "\"">> \o item.id
    \o <<"\"", ",", "\"", "t", "e", "x", "t", "\"", ":", "\"">> \o item.text
    \o <<"\"", ",", "\"", "r", "a", "n", "k", "\"", ":">> \o DecimalOf(item.rank)
    \o <<"}">>

EncodeItems(items) ==
    <<"[">> \o JoinComma([n \in 1..Len(items) |-> EncodeItem(items[n])]) \o <<"]">>

\* C23: after any sequence of addItem, removeItem and moveItem from the
\* empty selection the item at position i (counted from 0) has rank i+1,
\* and the value passed to onChange is exactly the encoding of that list: a
\* JSON array of {id, text, rank} that parses back to the selection.
C23_RanksContiguousValueEncodesList ==
    /\ \A i \in 1..Len(selectedItems) : selectedItems[i].rank = i
    /\ lastCall.emitted =>
          /\ lastCall.value = EncodeItems(selectedItems)
          /\ JSONparse(lastCall.value).ok
          /\ ItemsFromJson(JSONparse(lastCall.value).val) = selectedItems
          /\ \E id \in SurveyQuestionIds : answers[id] = JStr(lastCall.value)

\* the first of three selected items has been removed
C23_Witness ==
    /\ lastCall.op = "removeItem"
    /\ Len(lastCall.before) = 3
    /\ lastCall.text = lastCall.before[1].text
    /\ Len(selectedItems) = 2

\* C24: the number of selected items never exceeds maxSelections and no item
\* text is selected twice; addItem called on a full selection or with a text
\* that is already selected leaves the selection as it was and passes
\* nothing to onChange.
C24_SelectionBoundedAddGuarded ==
    /\ Len(selectedItems) <= maxSelections
    /\ \A i, j \in 1..Len(selectedItems) :
          i # j => selectedItems[i].text # selectedItems[j].text
    /\ ( /\ lastCall.op = "addItem"
         /\ \/ Len(lastCall.before) >= maxSelections
            \/ \E i \in 1..Len(lastCall.before) :
                  lastCall.before[i].text = lastCall.text )
       => ( ~lastCall.emitted /\ selectedItems = lastCall.before )

\* addItem was called with a new text on a full selection
C24_Witness ==
    /\ lastCall.op = "addItem"
    /\ Len(lastCall.before) = maxSelections
    /\ \A i \in 1..Len(lastCall.before) : lastCall.before[i].text # lastCall.text
    /\ ~lastCall.emitted

\* the answer of question q holds something: a priority answer lists at
\* least one item, any other answer is a non-empty text
HasAnswer(q, value) ==
    IF q.question_type = "priority"
    THEN LET r == JSONparse(value) IN
         r.ok /\ r.val.kind = "arr" /\ r.val.items # <<>>
    ELSE value # <<>>

\* C25: handleSubmit hands responses to the store only when every required
\* question has an answer (a priority question whose items were all removed
\* again and a text that was cleared have none), and only for questions
\* that have an answer.
C25_WritesOnlyAnswered ==
    \A n \in 1..Len(addDocs) :
        /\ HasAnswer(CatalogueQuestion(addDocs[n].doc.question_id),
                     addDocs[n].doc.response_value)
        /\ \A k \in 1..Len(surveyQuestions) :
              surveyQuestions[k].is_required =>
                  \E m \in 1..Len(addDocs) :
                      /\ addDocs[m].attempt = addDocs[n].attempt
                      /\ addDocs[m].doc.question_id = surveyQuestions[k].id

ItemPair(item) == <<item.id, item.text>>

\* C26: moveItem on the first item upwards or on the last item downwards
\* leaves the selection as it was and passes nothing to onChange; any other
\* move exchanges the item with its neighbour in the direction of the move,
\* keeps every other item in place and keeps the (id, text) pairs and the
\* length of the selection.
C26_MoveOnlyPermutes ==
    lastCall.op = "moveItem" =>
        LET before == lastCall.before
            i == lastCall.index + 1
            j == IF lastCall.direction = "up" THEN i - 1 ELSE i + 1
        IN  IF j < 1 \/ j > Len(before)
            THEN ~lastCall.emitted /\ selectedItems = before
            ELSE /\ lastCall.emitted
                 /\ Len(selectedItems) = Len(before)
                 /\ {ItemPair(selectedItems[k]) : k \in 1..Len(selectedItems)}
                        = {ItemPair(before[k]) : k \in 1..Len(before)}
                 /\ ItemPair(selectedItems[i]) = ItemPair(before[j])
                 /\ ItemPair(selectedItems[j]) = ItemPair(before[i])
                 /\ \A k \in 1..Len(before) :
                       k \notin {i, j} =>
                           ItemPair(selectedItems[k]) = ItemPair(before[k])

\* the second of three selected items has been moved down
C26_Witness ==
    /\ lastCall.op = "moveItem"
    /\ lastCall.direction = "down"
    /\ lastCall.index = 1
    /\ Len(lastCall.before) = 3
    /\ lastCall.emitted

\* the stored responses of the session
SessionResponses == SelectSeq(responses, LAMBDA r : r.session_id = SessionId)

\* handleSubmit has called createResponses and has finished, and no addDoc
\* is on its way
SubmitSettled ==
    /\ submitAttempt > 0
    /\ sessionPc \in {"form", "completed"}
    /\ \A n \in 1..Len(addDocs) : addDocs[n].state # "pending"

\* C27: once handleSubmit has finished, either every answered question of
\* the session has exactly one stored response or none has one, also after
\* a failed write and another submission; no two stored responses share
\* session and question.
C27_AllOrNothing ==
    /\ \A i, j \in 1..Len(responses) :
          ( /\ i # j
            /\ responses[i].session_id = responses[j].session_id )
          => responses[i].question_id # responses[j].question_id
    /\ SubmitSettled =>
          \/ SessionResponses = <<>>
          \/ \A k \in 1..Len(surveyQuestions) :
                Truthy(answers[surveyQuestions[k].id]) =>
                    Len(SelectSeq(SessionResponses,
                                  LAMBDA r : r.question_id = surveyQuestions[k].id)) = 1

RECURSIVE SumOfCounts(_)
SumOfCounts(counts) ==
    IF DOMAIN counts = {} THEN 0
    ELSE LET key == CHOOSE k \in DOMAIN counts : TRUE
         IN  counts[key] + SumOfCounts([k \in DOMAIN counts \ {key} |-> counts[k]])

\* C28: the statistics loadStats publishes come from one state of the
\* store: totalResponses is the sum of responsesByType and totalQuestions
\* is the sum of the per-type question counts, also when a response is
\* stored or a question is deleted while the load is under way.
C28_PublishedFromOneSnapshot ==
    Loaded =>
        /\ stats.totalResponses = SumOfCounts(stats.responsesByType)
        /\ stats.totalQuestions =
              SumOfCounts(CountByType(loadQueries.questions, 1, EmptyRecord))

====
